---------------------------- MODULE Spec2Model ----------------------------
(***************************************************************************)
(* Verification model of the rewrapt library visualizer:                   *)
(*   - the aggregation pipeline  (utils/spotifyTransform.ts)               *)
(*   - the time-travel genre map (components/vis/GenreMap, time cursor,    *)
(*     drill-down, playback, spawn marking)                                *)
(*   - the force layout engine   (hooks/useMusicSimulation)                *)
(* Each part has its own specification over a shared set of variables;     *)
(* a part leaves the other parts' variables unchanged.                     *)
(***************************************************************************)
EXTENDS Integers, Sequences, FiniteSets, TLC

VARIABLES
    \* ---- aggregation pipeline (transformTracksToNodes) ----
    tracks,                 \* the SpotifyTrack[] argument
    artistMap,              \* the Map<string, {genres}> argument (id -> genres | Absent)
    nodes,                  \* the returned GenreNode[]
    aggPc,                  \* "input" before the call, "done" after it
    \* ---- the genre classifier (mapGenreToPillar) ----
    label,                  \* the genre argument, a sequence of characters
    weights,                \* the returned PillarWeights, in tenths
    classPc,                \* "input" before the call, "done" after it
    position,               \* what calculateTargetPosition returned for weights
    \* ---- Dashboard: cancellable analyses ----
    signals,                \* the AbortSignals created so far: aborted or not
    abortControllerRef,     \* useRef: the current controller (index), 0 for null
    tasks,                  \* the async calls in flight {fn, signal, pc}
    genreData,              \* useState genreData
    allTracks,              \* useState allTracks
    artistDetails,          \* useState artistDetails
    analysisStep,           \* what the last step published, and under which signal
    loading,                \* useState loading
    viewTitle,              \* useState viewTitle: TRUE when set, i.e. the detail view
    \* ---- GenreMap with the time cursor ----
    data,                   \* the data prop
    activeData,             \* useState activeData
    viewStack,              \* useState viewStack
    selectedArtistNode,     \* useState selectedArtistNode
    currentDate,            \* useState currentDate (the time cursor)
    isPlaying,              \* useState isPlaying
    playbackSpeed,          \* useState playbackSpeed
    timeRange,              \* useState timeRange {min,max}
    nodeTrackCache,         \* useRef Map<id, number[]>
    currentSimulationNodes, \* useRef: the mutable node objects of the view
    simNodes,               \* simulation.nodes(): indices into currentSimulationNodes
    now,                    \* the wall clock read by Date.now()
    lastUpdate,             \* history: what the last cursor update did
    drillSnapshot,          \* history: the top-level view at the last drill-down
    lastClick,              \* history: what the last step's click hit, if it was one
    \* ---- force layout (useMusicSimulation + the canvas render loop) ----
    layoutProps,            \* the hook's arguments {data, mode} (width, height fixed)
    nodesRef,               \* useRef: the SimulationNode objects
    simulationRef,          \* useRef: the d3 simulation {alpha, running}
    frame,                  \* what the next animation frame callback is
    \* ---- MusicCanvas around the layout hook ----
    dimensions,             \* useState dimensions {width, height}
    renderLoop,             \* the render effect's loop and listeners are attached
    hoveredNode,            \* the render effect's local hoveredNode (a node id)
    transformRef,           \* useRef: the camera transform {k, x}
    savedGlobalTransform,   \* useRef: the camera saved when drilling down
    prevMode,               \* useRef: the mode the render effect saw last
    effectRuns,             \* how often the props or dimensions have changed
    canvasFrames,           \* display frames since the last such change
    emitted                 \* the callback the last step invoked, if any

classVars == <<label, weights, classPc, position>>
dashVars == <<signals, abortControllerRef, tasks, genreData, allTracks, artistDetails,
              analysisStep, loading, viewTitle>>
aggVars == <<tracks, artistMap, nodes, aggPc, classVars, dashVars>>
mapVars == <<data, activeData, viewStack, selectedArtistNode, currentDate, isPlaying,
             playbackSpeed, timeRange, nodeTrackCache, currentSimulationNodes,
             simNodes, now, lastUpdate, drillSnapshot, lastClick>>
canvasVars == <<dimensions, renderLoop, hoveredNode, transformRef,
                savedGlobalTransform, prevMode, effectRuns, canvasFrames, emitted>>
layoutVars == <<layoutProps, nodesRef, simulationRef, frame, canvasVars>>
vars == <<aggVars, mapVars, layoutVars>>

-----------------------------------------------------------------------------
(* Generic sequence helpers                                                *)

RECURSIVE FlatMap(_, _)
\* Array.prototype.forEach nesting: concatenate Op(s[i]) in order
FlatMap(Op(_), s) ==
    IF s = <<>> THEN <<>> ELSE Op(Head(s)) \o FlatMap(Op, Tail(s))

RECURSIVE MapSeq(_, _)
MapSeq(Op(_), s) ==
    IF s = <<>> THEN <<>> ELSE <<Op(Head(s))>> \o MapSeq(Op, Tail(s))

RECURSIVE DistinctInOrder(_)
\* keys of a JS Map in insertion order: first occurrences, in order
DistinctInOrder(s) ==
    IF s = <<>> THEN <<>>
    ELSE LET rest == DistinctInOrder(SelectSeq(Tail(s), LAMBDA e : e # Head(s)))
         IN  <<Head(s)>> \o rest

RECURSIVE SumSeq(_)
SumSeq(s) == IF s = <<>> THEN 0 ELSE Head(s) + SumSeq(Tail(s))

Range(s) == {s[i] : i \in 1..Len(s)}

Take(s, n) == SubSeq(s, 1, IF Len(s) < n THEN Len(s) ELSE n)

RECURSIVE InsertDesc(_, _, _)
\* stable insertion by descending Key
InsertDesc(Key(_), e, s) ==
    IF s = <<>> THEN <<e>>
    ELSE IF Key(Head(s)) >= Key(e) THEN <<Head(s)>> \o InsertDesc(Key, e, Tail(s))
    ELSE <<e>> \o s

RECURSIVE SortDesc(_, _)
\* Array.prototype.sort((a,b) => Key(b) - Key(a)): stable, descending
SortDesc(Key(_), s) ==
    IF s = <<>> THEN <<>>
    ELSE InsertDesc(Key, s[Len(s)], SortDesc(Key, SubSeq(s, 1, Len(s) - 1)))

-----------------------------------------------------------------------------
(* Aggregation pipeline: transformTracksToNodes                            *)

Absent == <<"absent">>      \* artistMap.get(id) === undefined

\* variant that keeps the letter case of the label
KeepCase(g) == g

\* String.prototype.toLowerCase on the labels of the model
ToLowerCase(g) ==
    CASE g = "Rock" -> "rock"
      [] g = "Jazz" -> "jazz"
      [] OTHER -> g

TopGenres == 200            \* .slice(0, 200)
TopTracks == 5              \* topTracks.length < 5

\* variant that files an artist without genre labels under a genre of its own
HitsWithUnknown(m, t, a) ==
    IF m[a.id] = Absent \/ m[a.id] = <<>>
    THEN <<[g |-> "unknown", name |-> a.name, track |-> t]>>
    ELSE MapSeq(LAMBDA genre : [g |-> ToLowerCase(genre), name |-> a.name, track |-> t],
                m[a.id])

\* lines 221-244: one entry per (track, artist, genre) visited by the nested forEach
GenreHitsOfArtist(m, t, a) ==
    IF m[a.id] = Absent THEN <<>>
    ELSE MapSeq(LAMBDA genre : [g |-> ToLowerCase(genre), name |-> a.name, track |-> t],
                m[a.id])

GenreHitsOfTrack(m, t) == FlatMap(LAMBDA a : GenreHitsOfArtist(m, t, a), t.artists)

GenreHits(ts, m) == FlatMap(LAMBDA t : GenreHitsOfTrack(m, t), ts)

\* the genreGroups entry of g: count, artists, tracks, topTracks
GenreGroup(hits, g) ==
    LET mine == SelectSeq(hits, LAMBDA h : h.g = g)
        trs  == MapSeq(LAMBDA h : h.track, mine)
    IN  [count |-> Len(mine),
         artists |-> DistinctInOrder(MapSeq(LAMBDA h : h.name, mine)),
         tracks |-> trs,
         topTracks |-> Take(trs, TopTracks)]

\* lines 254-264: every artist of every track of the group gets the track,
\* whether or not that artist has the genre ("Simplification" in the source)
ArtistHits(groupTracks) ==
    FlatMap(LAMBDA t : MapSeq(LAMBDA a : [name |-> a.name, track |-> t], t.artists),
            groupTracks)

\* lines 266-279: one child per key of artistGroups
ChildNode(genre, ahits, aname) ==
    LET trs == MapSeq(LAMBDA h : h.track, SelectSeq(ahits, LAMBDA h : h.name = aname))
    IN  [id |-> <<genre, aname>>, name |-> aname, count |-> Len(trs),
         artists |-> <<aname>>, tracks |-> trs, children |-> <<>>]

Children(genre, groupTracks) ==
    LET ahits == ArtistHits(groupTracks)
    IN  MapSeq(LAMBDA aname : ChildNode(genre, ahits, aname),
               DistinctInOrder(MapSeq(LAMBDA h : h.name, ahits)))

\* lines 282-295
GenreNodeOf(hits, genre) ==
    LET grp == GenreGroup(hits, genre)
    IN  [id |-> <<genre>>, name |-> genre, count |-> grp.count,
         artists |-> grp.artists, tracks |-> grp.tracks,
         children |-> Children(genre, grp.tracks)]

\* lines 210-300
transformTracksToNodes(ts, m) ==
    LET hits   == GenreHits(ts, m)
        genres == DistinctInOrder(MapSeq(LAMBDA h : h.g, hits))
        all    == MapSeq(LAMBDA g : GenreNodeOf(hits, g), genres)
    IN  Take(SortDesc(LAMBDA n : n.count, all), TopGenres)

-----------------------------------------------------------------------------
(* Inputs of the aggregation pipeline                                      *)

MaxTracks == 2              \* tracks per input list
MaxArtistsPerTrack == 2     \* artists credited on one track

\* artist references {id, name}; artists 1 and 3 share a display name
ArtistRefs == {[id |-> 1, name |-> "A"], [id |-> 2, name |-> "B"], [id |-> 3, name |-> "A"]}
ArtistIds == {a.id : a \in ArtistRefs}

SeqsUpTo(S, lo, hi) == UNION {[1..n -> S] : n \in lo..hi}

\* added_at: missing, a string Date cannot parse, or a parseable date (epoch units)
NoDate == [kind |-> "missing", ms |-> 0]
BadDate == [kind |-> "malformed", ms |-> 0]
DateAt(ms) == [kind |-> "date", ms |-> ms]

\* a track credits each artist at most once
ArtistLists ==
    {al \in SeqsUpTo(ArtistRefs, 1, MaxArtistsPerTrack) :
        \A i, j \in 1..Len(al) : al[i].id = al[j].id => i = j}

\* genre label lists an artist can carry in the artist map
GenreLists == {<<>>, <<"rock">>, <<"Rock", "rock">>, <<"rock", "jazz">>}

\* the artist map: artist 3, the namesake of artist 1, is unknown or a rock artist
ArtistMaps ==
    {m \in [ArtistIds -> GenreLists \cup {Absent}] : m[3] \in {Absent, <<"rock">>}}

TrackLists ==
    {[i \in 1..Len(al) |-> [id |-> i, artists |-> al[i], added |-> DateAt(60)]] :
        al \in SeqsUpTo(ArtistLists, 0, MaxTracks)}

-----------------------------------------------------------------------------
(* The genre map is idle while the aggregation is checked, and conversely  *)

MapIdle ==
    /\ data = <<>> /\ activeData = <<>> /\ viewStack = <<>>
    /\ selectedArtistNode = <<>> /\ currentDate = 0 /\ isPlaying = FALSE
    /\ playbackSpeed = 1 /\ timeRange = [min |-> 0, max |-> 0]
    /\ nodeTrackCache = <<>> /\ currentSimulationNodes = <<>> /\ simNodes = <<>>
    /\ now = 0 /\ lastUpdate = <<>> /\ drillSnapshot = <<>> /\ lastClick = 0 - 1

\* no label is being classified, no analysis was started
ClassIdle == label = <<>> /\ weights = <<>> /\ classPc = "idle" /\ position = <<>>

DashIdle ==
    /\ signals = <<>> /\ abortControllerRef = 0 /\ tasks = <<>>
    /\ genreData = <<>> /\ allTracks = <<>> /\ artistDetails = <<>>
    /\ analysisStep = <<>> /\ loading = FALSE /\ viewTitle = FALSE

AggIdle ==
    /\ tracks = <<>> /\ artistMap = <<>> /\ nodes = <<>> /\ aggPc = "idle"
    /\ ClassIdle /\ DashIdle

\* no MusicCanvas is mounted
CanvasIdle ==
    /\ dimensions = <<>> /\ renderLoop = FALSE /\ hoveredNode = <<>>
    /\ transformRef = <<>> /\ savedGlobalTransform = <<>> /\ prevMode = ""
    /\ effectRuns = 0 /\ canvasFrames = 0 /\ emitted = <<>>

\* the layout hook is not mounted
LayoutIdle ==
    /\ layoutProps = <<>>
    /\ nodesRef = <<>>
    /\ simulationRef = <<>>
    /\ frame = "none"
    /\ CanvasIdle

InitAggregation ==
    /\ tracks \in TrackLists
    /\ artistMap \in ArtistMaps
    /\ nodes = <<>>
    /\ aggPc = "input"
    /\ ClassIdle
    /\ DashIdle
    /\ MapIdle
    /\ LayoutIdle

\* one call of transformTracksToNodes(tracks, artistMap)
Transform ==
    /\ aggPc = "input"
    /\ nodes' = transformTracksToNodes(tracks, artistMap)
    /\ aggPc' = "done"
    /\ UNCHANGED <<tracks, artistMap, classVars, dashVars, mapVars, layoutVars>>

NextAggregation == Transform

SpecAggregation == InitAggregation /\ [][NextAggregation]_vars

-----------------------------------------------------------------------------
(* Properties of the aggregation pipeline                                 *)

ChildCountSum(n) == SumSeq(MapSeq(LAMBDA c : c.count, n.children))

\* the artists that contributed to genre g: credited on a track and carrying g
Contributors(ts, m, g) ==
    {a \in UNION {Range(t.artists) : t \in Range(ts)} :
        /\ m[a.id] # Absent
        /\ \E i \in 1..Len(m[a.id]) : ToLowerCase(m[a.id][i]) = g}

\* C1: for every input, the counts of the children of each returned genre node
\* sum to the genre node's own count.
C1_ChildCountsSumToGenreCount ==
    aggPc = "done" => \A i \in 1..Len(nodes) : ChildCountSum(nodes[i]) = nodes[i].count

\* C2: the children of each returned genre node are exactly the artists that
\* contributed to the genre, one node each; an artist absent from the artist map
\* or lacking the genre has no child node under it.
C2_ChildrenAreContributors ==
    aggPc = "done" =>
        \A i \in 1..Len(nodes) :
            LET n == nodes[i]
                names == MapSeq(LAMBDA c : c.name, n.children)
            IN  /\ Range(names) = {a.name : a \in Contributors(tracks, artistMap, n.name)}
                /\ DistinctInOrder(names) = names

\* the artist has an entry with at least one genre label in the artist map
GenreBearing(m, a) == m[a.id] # Absent /\ m[a.id] # <<>>

\* the tracks with at least one genre-bearing artist, in their order
WithGenres(ts, m) ==
    SelectSeq(ts, LAMBDA t : \E a \in Range(t.artists) : GenreBearing(m, a))

\* C23: a track none of whose artists has genre labels contributes to no node: the
\* result is the one for the input without such tracks, and an input without any
\* genre-bearing (track, artist) pair, the empty list included, gives no node.
C23_GenrelessTracksDropped ==
    aggPc = "done" =>
        /\ nodes = transformTracksToNodes(WithGenres(tracks, artistMap), artistMap)
        /\ WithGenres(tracks, artistMap) = <<>> => nodes = <<>>

\* C23 witness: of two tracks one has no genre-bearing artist, and the result has
\* nodes, none of which holds that track
C23_Witness ==
    /\ aggPc = "done"
    /\ Len(tracks) = 2
    /\ Len(WithGenres(tracks, artistMap)) = 1
    /\ nodes # <<>>
    /\ \A i \in 1..Len(nodes) : Len(nodes[i].tracks) = nodes[i].count

\* the labels of the model that differ only in letter case
CaseFold(g) ==
    IF g \in {"Rock", "rock"} THEN "rock"
    ELSE IF g \in {"Jazz", "jazz"} THEN "jazz"
    ELSE g

\* the (track, artist, label) triples of the input whose label folds to g
Contributions(ts, m, g) ==
    {<<i, j, k>> \in (1..Len(ts)) \X (1..MaxArtistsPerTrack) \X (1..2) :
        /\ j <= Len(ts[i].artists)
        /\ m[ts[i].artists[j].id] # Absent
        /\ k <= Len(m[ts[i].artists[j].id])
        /\ CaseFold(m[ts[i].artists[j].id][k]) = g}

\* C24: there is one genre node per case-folded label that has contributions, its
\* count is the number of contributions of all spellings of the label, no two genre
\* nodes share an id, and no two children of a genre node share an id.
C24_OneNodePerFoldedLabel ==
    aggPc = "done" =>
        /\ \A i, j \in 1..Len(nodes) : nodes[i].id = nodes[j].id => i = j
        /\ \A i, j \in 1..Len(nodes) :
               CaseFold(nodes[i].name) = CaseFold(nodes[j].name) => i = j
        /\ \A i \in 1..Len(nodes) :
               /\ nodes[i].count =
                      Cardinality(Contributions(tracks, artistMap, CaseFold(nodes[i].name)))
               /\ \A c, d \in 1..Len(nodes[i].children) :
                      nodes[i].children[c].id = nodes[i].children[d].id => c = d
        /\ \A g \in {"rock", "jazz"} :
               Contributions(tracks, artistMap, g) # {} =>
                   \E i \in 1..Len(nodes) : nodes[i].name = g

\* C24 witness: one artist carries "Rock" and "rock", another "rock"; the one rock
\* node counts the three contributions of a track of both
C24_Witness ==
    /\ aggPc = "done"
    /\ Len(tracks) = 1
    /\ \E a \in Range(tracks[1].artists) : artistMap[a.id] = <<"Rock", "rock">>
    /\ \E a \in Range(tracks[1].artists) : artistMap[a.id] = <<"rock">>
    /\ Len(nodes) = 1
    /\ nodes[1].count = 3

-----------------------------------------------------------------------------
(* Time-travel genre map: timestamps, time range, per-node date cache      *)
(* Timestamps are epoch values in model units.                             *)

NaN == -1                   \* new Date(<unparseable>).getTime()

\* JS relational operators: every comparison with NaN is false
NumLT(a, b) == a # NaN /\ b # NaN /\ a < b
NumGT(a, b) == a # NaN /\ b # NaN /\ a > b

\* `t.added_at ? ... : ...`: undefined (and "") are falsy, any other string truthy
Truthy(added) == added.kind # "missing"

\* new Date(t.added_at).getTime()
GetTime(added) == IF added.kind = "date" THEN added.ms ELSE NaN

YearMs == 120               \* 31536000000 ms, in model units

\* traverse(nodes): the added_at of every track of every node, children included,
\* in visiting order
RECURSIVE TraverseAdded(_)
TraverseAdded(ns) ==
    FlatMap(LAMBDA n : MapSeq(LAMBDA t : t.added, n.tracks) \o TraverseAdded(n.children),
            ns)

RECURSIVE ScanRange(_, _)
\* the forEach body over the visited tracks: acc = [min, max, hasDates]
ScanRange(acc, addeds) ==
    IF addeds = <<>> THEN acc
    ELSE LET a == Head(addeds)
             d == GetTime(a)
             acc2 == IF Truthy(a)
                     THEN [min |-> IF NumLT(d, acc.min) THEN d ELSE acc.min,
                           max |-> IF NumGT(d, acc.max) THEN d ELSE acc.max,
                           hasDates |-> TRUE]
                     ELSE acc
         IN  ScanRange(acc2, Tail(addeds))

\* the time range effect for non-empty data, reading Date.now() = nowv
TimeRangeOf(d, nowv) ==
    LET r == ScanRange([min |-> nowv, max |-> 0, hasDates |-> FALSE], TraverseAdded(d))
    IN  IF r.hasDates THEN [min |-> r.min, max |-> r.max]
        ELSE [min |-> nowv - YearMs, max |-> nowv]

\* .sort((a, b) => a - b)
SortAsc(s) == SortDesc(LAMBDA e : 0 - e, s)

\* variant of NodeDates that leaves the dates in track order
NodeDatesUnsorted(n) ==
    SelectSeq(MapSeq(LAMBDA t : IF Truthy(t.added) THEN GetTime(t.added) ELSE 0,
                     n.tracks),
              LAMBDA d : NumGT(d, 0))

\* node.tracks.map(added_at ? getTime : 0).filter(d => d > 0).sort(...)
NodeDates(n) ==
    SortAsc(SelectSeq(MapSeq(LAMBDA t : IF Truthy(t.added) THEN GetTime(t.added) ELSE 0,
                             n.tracks),
                      LAMBDA d : NumGT(d, 0)))

\* nodeTrackCache after the rebuild for the view `active`
BuildCache(active) ==
    [id \in {n.id : n \in Range(active)} |->
        NodeDates(CHOOSE n \in Range(active) : n.id = id)]

Undefined == -2             \* a property the object does not have

\* currentSimulationNodes after the rebuild: fresh copies {...d, x, y}
FreshNodes(active) ==
    MapSeq(LAMBDA d : [id |-> d.id, name |-> d.name, count |-> d.count,
                       children |-> d.children, currentRadius |-> Undefined,
                       targetRadius |-> Undefined, spawnTime |-> Undefined,
                       isSpawning |-> FALSE],
           active)

-----------------------------------------------------------------------------
(* updateSimulationForDate                                                 *)

\* variant of CountUpTo with the comparison turned around
CountAfter(dates, date) == Len(SelectSeq(dates, LAMBDA d : d > date))

RECURSIVE CountUpTo(_, _)
\* for (let d of dates) { if (d <= date) count++; else break; }
CountUpTo(dates, date) ==
    IF dates = <<>> THEN 0
    ELSE IF Head(dates) <= date THEN 1 + CountUpTo(Tail(dates), date)
    ELSE 0

RECURSIVE ISqrt(_, _)
ISqrt(n, r) == IF (r + 1) * (r + 1) > n THEN r ELSE ISqrt(n, r + 1)

RadiusUnit == 5             \* radii are held in units of RadiusUnit pixels

\* Math.sqrt(count) * 10, in radius units
TargetRadius(count) == ISqrt(count * 100, 0) \div RadiusUnit

\* lines 293-314: the dynamic count of one node
DynamicCount(cache, node, date) ==
    IF node.id \in DOMAIN cache THEN CountUpTo(cache[node.id], date) ELSE node.count

\* variant of IsActive that keeps every node
KeepsAll(count) == count >= 0

\* lines 316-318: the node goes to activeNodes
IsActive(count) == count > 0

\* lines 326-336: spawn detection on an active node
MarksSpawn(node, count) ==
    LET cr == IF node.currentRadius = Undefined \/ node.currentRadius = 0
              THEN 0 ELSE node.currentRadius
    IN  TargetRadius(count) > 0 /\ cr = 0

UpdateNode(cache, node, date, nowv) ==
    LET count == DynamicCount(cache, node, date)
    IN  IF IsActive(count)
        THEN [node EXCEPT !.count = count,
                          !.currentRadius = IF @ = Undefined THEN 0 ELSE @,
                          !.spawnTime = IF MarksSpawn(node, count) THEN nowv ELSE @,
                          !.isSpawning = IF MarksSpawn(node, count) THEN TRUE ELSE @,
                          !.targetRadius = TargetRadius(count)]
        ELSE [node EXCEPT !.count = count]

\* the mutable node objects after updateSimulationForDate(date)
UpdatedNodes(cache, csn, date, nowv) ==
    MapSeq(LAMBDA node : UpdateNode(cache, node, date, nowv), csn)

\* simulation.nodes(activeNodes): the indices of the active nodes, in order
ActiveIndices(csn) ==
    SelectSeq([i \in 1..Len(csn) |-> i], LAMBDA i : IsActive(csn[i].count))

\* the ids updateSimulationForDate(date) marks as spawning
MarkedBy(cache, csn, date) ==
    {csn[i].id : i \in {j \in 1..Len(csn) :
        LET c == DynamicCount(cache, csn[j], date)
        IN  IsActive(c) /\ MarksSpawn(csn[j], c)}}

-----------------------------------------------------------------------------
(* GenreMap: the effects that follow a state change                        *)

RECURSIVE ApplyUpdates(_, _, _, _)
\* updateSimulationForDate called once per date of `dates`, in order
ApplyUpdates(cache, csn, dates, nowv) ==
    IF dates = <<>> THEN csn
    ELSE ApplyUpdates(cache, UpdatedNodes(cache, csn, Head(dates), nowv), Tail(dates), nowv)

\* the playback effect's restart: `if (currentDate >= timeRange.max) setCurrentDate(min)`
RestartAtEnd(playing, date, range) ==
    IF playing /\ date >= range.max THEN range.min ELSE date

\* the rebuild effect on a new activeData, then the cursor updates that follow it
RebuildView(active, dates) ==
    /\ nodeTrackCache' = BuildCache(active)
    /\ currentSimulationNodes' =
           ApplyUpdates(BuildCache(active), FreshNodes(active), dates, now)
    /\ simNodes' = ActiveIndices(currentSimulationNodes')
    /\ lastUpdate' = [rebuilt |-> TRUE, marked |-> {}, grew |-> FALSE]

NoSnapshot == [valid |-> FALSE, counts |-> {}]

\* history: the update moved the cursor forward and raised the count of a node
\* that was active already
GrewBy(cache, csn, oldDate, newDate) ==
    /\ newDate > oldDate
    /\ \E i \in 1..Len(csn) :
           csn[i].count > 0 /\ DynamicCount(cache, csn[i], newDate) > csn[i].count

\* the sync effect: updateSimulationForDate(currentDate) when currentDate changed;
\* a drill-down snapshot is kept only while the cursor stays where it was
SyncCursor(newDate) ==
    IF newDate = currentDate
    THEN UNCHANGED <<currentSimulationNodes, simNodes, lastUpdate, drillSnapshot>>
    ELSE /\ currentSimulationNodes' =
                UpdatedNodes(nodeTrackCache, currentSimulationNodes, newDate, now)
         /\ simNodes' = ActiveIndices(currentSimulationNodes')
         /\ lastUpdate' = [rebuilt |-> FALSE,
                           marked |-> MarkedBy(nodeTrackCache, currentSimulationNodes,
                                               newDate),
                           grew |-> GrewBy(nodeTrackCache, currentSimulationNodes,
                                           currentDate, newDate)]
         /\ drillSnapshot' = NoSnapshot

-----------------------------------------------------------------------------
(* GenreMap: inputs                                                        *)

Now0 == 240                 \* Date.now() during the run, later than every added_at

TrackOf(i, al, added) == [id |-> i, artists |-> al, added |-> added]

RefA == [id |-> 1, name |-> "A"]
RefB == [id |-> 2, name |-> "B"]

\* two artists sharing "rock", tracks not in chronological order; "jazz" starts
\* later than the oldest track
LibDated ==
    transformTracksToNodes(
        <<TrackOf(1, <<RefA>>, DateAt(120)), TrackOf(2, <<RefB>>, DateAt(60)),
          TrackOf(3, <<RefA>>, DateAt(180))>>,
        <<(<<"Rock", "jazz">>), (<<"rock">>), Absent>>)

\* a genre whose only track has no added_at, next to a dated genre
LibUndated ==
    transformTracksToNodes(
        <<TrackOf(1, <<RefA>>, NoDate), TrackOf(2, <<RefB>>, DateAt(120)),
          TrackOf(3, <<RefB>>, DateAt(60))>>,
        <<(<<"rock">>), (<<"jazz">>), Absent>>)

\* every added_at is a string Date cannot parse
LibMalformed ==
    transformTracksToNodes(<<TrackOf(1, <<RefA>>, BadDate)>>,
                           <<(<<"rock">>), Absent, Absent>>)

\* no track has an added_at
LibNoDates ==
    transformTracksToNodes(<<TrackOf(1, <<RefA>>, NoDate)>>,
                           <<(<<"rock">>), Absent, Absent>>)

DataChoices == {<<>>, LibDated, LibUndated, LibMalformed, LibNoDates}

Speeds == {1, 5, 20}        \* the speed buttons
PlaybackBaseMs == 60000     \* durationMs = 60000 / playbackSpeed
FrameGaps == {0, 15000}     \* dt between two animation frames, ms
ScrubStops == 4             \* the slider is moved to ScrubStops + 1 positions
CursorBound == 400          \* the model follows the cursor down to -CursorBound

-----------------------------------------------------------------------------
(* GenreMap: initial state (after the mount effects) and actions           *)

NoNode == <<>>

\* lastClick is the index in simulation.nodes() of the node the click hit, 0 when
\* the click hit no node, and NoClick when the step was no click
NoClick == 0 - 1

InitGenreMap ==
    /\ AggIdle
    /\ LayoutIdle
    /\ now = Now0
    /\ data \in DataChoices
    /\ activeData = data
    /\ viewStack = <<>>
    /\ selectedArtistNode = NoNode
    /\ isPlaying = FALSE
    /\ playbackSpeed = 1
    /\ timeRange = IF data = <<>> THEN [min |-> now, max |-> now]
                   ELSE TimeRangeOf(data, now)
    /\ currentDate = IF data = <<>> THEN now ELSE timeRange.max
    /\ nodeTrackCache = BuildCache(activeData)
       \* rebuild effect and sync effect with the initial cursor (Date.now()),
       \* then the sync effect with the cursor the range effect set
    /\ currentSimulationNodes =
           ApplyUpdates(nodeTrackCache, FreshNodes(activeData),
                        <<now, now, currentDate>>, now)
    /\ simNodes = ActiveIndices(currentSimulationNodes)
    /\ lastUpdate = [rebuilt |-> TRUE, marked |-> {}, grew |-> FALSE]
    /\ drillSnapshot = NoSnapshot
    /\ lastClick = NoClick

\* what the top-level view shows: for the round trip drill-down / back
ViewCounts(csn) == {<<csn[i].id, csn[i].count>> : i \in 1..Len(csn)}

\* the data prop changes (a new analysis): reset effect, range effect, rebuild
SetData(d) ==
    /\ d # data
    /\ data' = d
    /\ activeData' = d
    /\ viewStack' = <<>>
    /\ selectedArtistNode' = NoNode
    /\ timeRange' = IF d = <<>> THEN timeRange ELSE TimeRangeOf(d, now)
    /\ LET set == IF d = <<>> THEN currentDate ELSE timeRange'.max
           \* the playback effect re-runs only when timeRange was set
           fin == IF d = <<>> THEN set ELSE RestartAtEnd(isPlaying, set, timeRange')
       IN  /\ currentDate' = fin
           /\ RebuildView(d, IF fin = set THEN <<set, set>> ELSE <<set, set, fin>>)
    /\ drillSnapshot' = NoSnapshot
    /\ UNCHANGED <<isPlaying, playbackSpeed, now, aggVars, layoutVars>>
    /\ lastClick' = NoClick

\* handleClick hitting the k-th node of simulation.nodes(), which has children
ClickDrill(k) ==
    /\ k \in 1..Len(simNodes)
    /\ LET node == currentSimulationNodes[simNodes[k]]
       IN  /\ Len(node.children) > 0
           /\ viewStack' = Append(viewStack, node.name)
           /\ activeData' = node.children
           /\ RebuildView(node.children, <<currentDate>>)
    /\ drillSnapshot' = [valid |-> TRUE, counts |-> ViewCounts(currentSimulationNodes)]
    /\ UNCHANGED <<data, selectedArtistNode, currentDate, isPlaying, playbackSpeed,
                   timeRange, now, aggVars, layoutVars>>
    /\ lastClick' = k

\* variant of the leaf click that drills into the node all the same
ClickLeafDrills(k) ==
    /\ k \in 1..Len(simNodes)
    /\ LET node == currentSimulationNodes[simNodes[k]]
       IN  /\ Len(node.children) = 0
           /\ viewStack' = Append(viewStack, node.name)
           /\ activeData' = node.children
           /\ RebuildView(node.children, <<currentDate>>)
    /\ lastClick' = k
    /\ UNCHANGED <<data, selectedArtistNode, currentDate, isPlaying, playbackSpeed,
                   timeRange, now, drillSnapshot, aggVars, layoutVars>>

\* handleClick hitting the k-th node of simulation.nodes(), a leaf
ClickLeaf(k) ==
    /\ k \in 1..Len(simNodes)
    /\ LET node == currentSimulationNodes[simNodes[k]]
       IN  /\ Len(node.children) = 0
           /\ selectedArtistNode' = node.id
    /\ UNCHANGED <<data, activeData, viewStack, currentDate, isPlaying, playbackSpeed,
                   timeRange, nodeTrackCache, currentSimulationNodes, simNodes, now,
                   lastUpdate, drillSnapshot, aggVars, layoutVars>>
    /\ lastClick' = k

\* variant of the click on the background that goes back to the top level
ClickBackgroundGoesBack ==
    /\ lastClick' = 0
    /\ activeData' = data
    /\ viewStack' = <<>>
    /\ RebuildView(data, <<currentDate>>)
    /\ UNCHANGED <<data, selectedArtistNode, currentDate, isPlaying, playbackSpeed,
                   timeRange, now, drillSnapshot, aggVars, layoutVars>>

\* handleClick with the pointer inside no node: the loop ends without a hit
ClickBackground ==
    /\ lastClick' = 0
    /\ UNCHANGED <<data, activeData, viewStack, selectedArtistNode, currentDate,
                   isPlaying, playbackSpeed, timeRange, nodeTrackCache,
                   currentSimulationNodes, simNodes, now, lastUpdate, drillSnapshot,
                   aggVars, layoutVars>>

\* variant of handleBack that pops the stack but keeps showing the children
BackKeepsView ==
    /\ Len(viewStack) > 0
    /\ activeData' = activeData
    /\ viewStack' = <<>>
    /\ selectedArtistNode' = NoNode
    /\ RebuildView(activeData, <<currentDate>>)
    /\ UNCHANGED <<data, currentDate, isPlaying, playbackSpeed, timeRange, now,
                   drillSnapshot, aggVars, layoutVars>>
    /\ lastClick' = NoClick

\* handleBack (the button is rendered while viewStack is not empty)
handleBack ==
    /\ Len(viewStack) > 0
    /\ activeData' = data
    /\ viewStack' = <<>>
    /\ selectedArtistNode' = NoNode
    /\ RebuildView(data, <<currentDate>>)
    /\ UNCHANGED <<data, currentDate, isPlaying, playbackSpeed, timeRange, now,
                   drillSnapshot, aggVars, layoutVars>>
    /\ lastClick' = NoClick

\* slider onChange: the input offers the positions between min and max, and
\* cannot be moved when max <= min
ScrubValues(range) ==
    IF range.max <= range.min THEN {}
    ELSE {range.min + (k * (range.max - range.min)) \div ScrubStops : k \in 0..ScrubStops}

Scrub(T) ==
    /\ T \in ScrubValues(timeRange)
    /\ T # currentDate
    /\ isPlaying' = FALSE
    /\ currentDate' = T
    /\ SyncCursor(T)
    /\ UNCHANGED <<data, activeData, viewStack, selectedArtistNode, playbackSpeed,
                   timeRange, nodeTrackCache, now, aggVars, layoutVars>>
    /\ lastClick' = NoClick

\* the play / pause button, then the playback effect
TogglePlay ==
    /\ isPlaying' = ~isPlaying
    /\ currentDate' = RestartAtEnd(isPlaying', currentDate, timeRange)
    /\ SyncCursor(currentDate')
    /\ UNCHANGED <<data, activeData, viewStack, selectedArtistNode, playbackSpeed,
                   timeRange, nodeTrackCache, now, aggVars, layoutVars>>
    /\ lastClick' = NoClick

\* a speed button, then the playback effect
SetSpeed(sp) ==
    /\ sp \in Speeds
    /\ sp # playbackSpeed
    /\ playbackSpeed' = sp
    /\ currentDate' = RestartAtEnd(isPlaying, currentDate, timeRange)
    /\ SyncCursor(currentDate')
    /\ UNCHANGED <<data, activeData, viewStack, selectedArtistNode, isPlaying,
                   timeRange, nodeTrackCache, now, aggVars, layoutVars>>
    /\ lastClick' = NoClick

\* advance = (totalSpan / durationMs) * dt, durationMs = 60000 / playbackSpeed
Advance(range, speed, dt) == ((range.max - range.min) * speed * dt) \div PlaybackBaseMs

\* the updater of the playback loop: [cursor, playing]
StepCursor(prev, range, speed, dt) ==
    LET next == prev + Advance(range, speed, dt)
    IN  IF next >= range.max THEN [date |-> range.max, playing |-> FALSE]
        ELSE [date |-> next, playing |-> TRUE]

\* one frame of the playback loop, dt after the previous one
PlaybackStep(dt) ==
    /\ isPlaying
    /\ dt \in FrameGaps
    /\ LET r == StepCursor(currentDate, timeRange, playbackSpeed, dt)
       IN  /\ r.date >= 0 - CursorBound
           /\ currentDate' = r.date
           /\ isPlaying' = r.playing
           /\ SyncCursor(r.date)
    /\ UNCHANGED <<data, activeData, viewStack, selectedArtistNode, playbackSpeed,
                   timeRange, nodeTrackCache, now, aggVars, layoutVars>>
    /\ lastClick' = NoClick

\* node.currentRadius += diff * 0.1, snapping when |diff| <= 0.1; in radius units
\* the step is rounded away from zero, so every frame moves toward the target
Lerp(cur, target) ==
    LET diff == target - cur
    IN  IF diff = 0 THEN target
        ELSE IF diff > 0 THEN cur + ((diff + 9) \div 10)
        ELSE cur - (((0 - diff) + 9) \div 10)

\* ticked: the radius animation of one drawn node
TickNode(node) ==
    LET target == IF node.targetRadius = Undefined \/ node.targetRadius = 0
                  THEN TargetRadius(node.count) ELSE node.targetRadius
        cur == IF node.currentRadius = Undefined THEN 0 ELSE node.currentRadius
    IN  IF node.count <= 0 THEN node
        ELSE [node EXCEPT !.currentRadius = Lerp(cur, target)]

\* one simulation tick event: sort simulation.nodes() by count, animate each node
Ticked ==
    /\ data # <<>>
    /\ simNodes' = SortDesc(LAMBDA i : currentSimulationNodes[i].count, simNodes)
    /\ currentSimulationNodes' =
           [i \in 1..Len(currentSimulationNodes) |->
               IF i \in Range(simNodes) THEN TickNode(currentSimulationNodes[i])
               ELSE currentSimulationNodes[i]]
    /\ UNCHANGED <<data, activeData, viewStack, selectedArtistNode, currentDate,
                   isPlaying, playbackSpeed, timeRange, nodeTrackCache, now,
                   lastUpdate, drillSnapshot, aggVars, layoutVars>>
    /\ lastClick' = NoClick

NextGenreMap ==
    \/ \E d \in DataChoices : SetData(d)
    \/ \E k \in 1..Len(simNodes) : ClickDrill(k)
    \/ \E k \in 1..Len(simNodes) : ClickLeaf(k)
    \/ ClickBackground
    \/ handleBack
    \/ \E T \in ScrubValues(timeRange) : Scrub(T)
    \/ TogglePlay
    \/ \E sp \in Speeds : SetSpeed(sp)
    \/ \E dt \in FrameGaps : PlaybackStep(dt)
    \/ Ticked

SpecGenreMap == InitGenreMap /\ [][NextGenreMap]_vars

-----------------------------------------------------------------------------
(* Properties of the genre map: drill-down, time cursor, playback         *)

\* the node of the current view that the i-th simulation object was copied from
ViewNode(i) == activeData[i]

\* the added timestamps of a node that Date can parse, counted up to T
DatedUpTo(n, T) ==
    Cardinality({k \in 1..Len(n.tracks) :
        n.tracks[k].added.kind = "date" /\ n.tracks[k].added.ms <= T})

HasUndated(n) == \E k \in 1..Len(n.tracks) : n.tracks[k].added.kind # "date"

SameView == activeData' = activeData /\ data' = data

DrillStep == \E k \in 1..Len(simNodes) : ClickDrill(k)

\* C3: from the top level a click on a node with children moves to Drilled(name)
\* with exactly that node's children as the active set; the back action returns
\* to the top level with an empty view stack, the original node list and, at an
\* unchanged cursor, the same node ids and counts as before drilling.
C3_DrillBackRoundTrip ==
    [][ /\ (DrillStep /\ viewStack = <<>>) =>
              \E n \in Range(activeData) :
                  /\ Len(n.children) > 0
                  /\ viewStack' = <<n.name>>
                  /\ activeData' = n.children
                  /\ {c.id : c \in Range(currentSimulationNodes')} =
                         {c.id : c \in Range(n.children)}
        /\ (handleBack /\ drillSnapshot.valid) =>
              /\ viewStack' = <<>>
              /\ activeData' = data
              /\ ViewCounts(currentSimulationNodes') = drillSnapshot.counts
      ]_vars

\* C3 witness: back at the top level after a drill-down, the cursor not moved
\* since, showing the counts recorded then (some of them positive)
C3_Witness ==
    /\ drillSnapshot.valid
    /\ viewStack = <<>>
    /\ ViewCounts(currentSimulationNodes) = drillSnapshot.counts
    /\ \E p \in drillSnapshot.counts : p[2] > 0

\* C4: after every cursor update each node of the view that has a timestamp list
\* has a count equal to the number of its recorded timestamps <= the cursor.
C4_CountIsDatesUpToCursor ==
    \A i \in 1..Len(currentSimulationNodes) :
        currentSimulationNodes[i].id \in DOMAIN nodeTrackCache =>
            currentSimulationNodes[i].count = DatedUpTo(ViewNode(i), currentDate)

\* C4 witness: the cursor was moved (it starts at the maximum) to a value where a
\* node has some but not all of its timestamps behind it
C4_Witness ==
    /\ ~lastUpdate.rebuilt
    /\ currentDate < timeRange.max
    /\ \E i \in 1..Len(currentSimulationNodes) :
           /\ currentSimulationNodes[i].count > 0
           /\ currentSimulationNodes[i].count < DatedUpTo(ViewNode(i), timeRange.max)

\* C5: a node with a member track whose added timestamp is missing or malformed
\* keeps a positive active count and stays in the active set at every cursor.
C5_UndatedAlwaysActive ==
    \A i \in 1..Len(currentSimulationNodes) :
        HasUndated(ViewNode(i)) =>
            /\ currentSimulationNodes[i].count > 0
            /\ i \in Range(simNodes)

\* C6: within one view, when the cursor does not move backward no node's count
\* decreases and no active node leaves the active set; a node leaves the active
\* set only when the cursor moves backward.
C6_MonotoneInCursor ==
    [][ SameView =>
          \A i \in 1..Len(currentSimulationNodes) :
              /\ currentDate' >= currentDate =>
                    /\ currentSimulationNodes'[i].count >= currentSimulationNodes[i].count
                    /\ (i \in Range(simNodes) => i \in Range(simNodes'))
              /\ (i \in Range(simNodes) /\ i \notin Range(simNodes')) =>
                    currentDate' < currentDate
      ]_vars

\* C6 witness: a cursor update moved the cursor forward and a node's count grew
C6_Witness ==
    /\ ~lastUpdate.rebuilt
    /\ lastUpdate.grew
    /\ \E i \in 1..Len(currentSimulationNodes) :
           /\ currentSimulationNodes[i].count > 1
           /\ currentSimulationNodes[i].count = DatedUpTo(ViewNode(i), currentDate)

PlaybackStepAny == \E dt \in FrameGaps : PlaybackStep(dt)

\* C7: every playback step sets the cursor to min(cursor + advance, max) with
\* advance >= 0: the cursor never decreases, never exceeds the maximum, and the
\* step that reaches the maximum turns playback off with the cursor at the maximum.
C7_PlaybackMonotoneToMax ==
    [][ PlaybackStepAny =>
          /\ currentDate' >= currentDate
          /\ currentDate' <= timeRange.max
          /\ \E dt \in FrameGaps :
                 /\ Advance(timeRange, playbackSpeed, dt) >= 0
                 /\ LET next == currentDate + Advance(timeRange, playbackSpeed, dt)
                    IN  currentDate' = IF next < timeRange.max THEN next
                                       ELSE timeRange.max
          /\ (currentDate' = timeRange.max) = ~isPlaying'
      ]_vars

\* C8: whenever a cursor update takes a node's count from 0 to a positive value,
\* the update marks the node as newly spawning (isSpawning set, spawnTime
\* refreshed), also when the node was active before.
C8_ReactivationMarksSpawn ==
    [][ SameView =>
          \A i \in 1..Len(currentSimulationNodes) :
              (currentSimulationNodes[i].count = 0
                  /\ currentSimulationNodes'[i].count > 0) =>
                  /\ currentSimulationNodes'[i].id \in lastUpdate'.marked
                  /\ currentSimulationNodes'[i].isSpawning
                  /\ currentSimulationNodes'[i].spawnTime = now
      ]_vars

\* C9: after every cursor update the simulation's node list holds exactly the
\* nodes of the view whose count is positive, each once.
C9_SimulationHoldsActiveNodes ==
    /\ Range(simNodes) =
           {i \in 1..Len(currentSimulationNodes) : currentSimulationNodes[i].count > 0}
    /\ \A j, k \in 1..Len(simNodes) : simNodes[j] = simNodes[k] => j = k

\* C9 witness: a cursor update left one node of the view at count 0, outside the
\* simulation, and another one inside it
C9_Witness ==
    /\ ~lastUpdate.rebuilt
    /\ \E i, j \in 1..Len(currentSimulationNodes) :
           /\ currentSimulationNodes[i].count = 0
           /\ i \notin Range(simNodes)
           /\ DatedUpTo(ViewNode(i), timeRange.max) > 0
           /\ j \in Range(simNodes)

-----------------------------------------------------------------------------
(* Force layout: useMusicSimulation and the canvas render loop.            *)
(* Lengths are held in fixed point, PosScale units per pixel, and the      *)
(* layout is followed along the horizontal diameter of the container       *)
(* (every node at y = center.y, where all forces act along x).             *)

PosScale == 100             \* length units per pixel
AlphaScale == 10000         \* alpha units per 1.0
CanvasSize == 1000          \* width = height of the canvas, in pixels

Abs(a) == IF a < 0 THEN 0 - a ELSE a
Sign(a) == IF a < 0 THEN -1 ELSE IF a > 0 THEN 1 ELSE 0
Min2(a, b) == IF a < b THEN a ELSE b
Max2(a, b) == IF a > b THEN a ELSE b
\* a / b rounded toward zero, b > 0
Quot(a, b) == Sign(a) * (Abs(a) \div b)

RECURSIVE SqrtBetween(_, _, _)
SqrtBetween(n, lo, hi) ==
    IF lo >= hi THEN lo
    ELSE LET mid == (lo + hi + 1) \div 2
         IN  IF mid * mid <= n THEN SqrtBetween(n, mid, hi)
             ELSE SqrtBetween(n, lo, mid - 1)

\* Math.sqrt(c) in thousandths
SqrtMilli(c) == SqrtBetween(c * 1000000, 0, 46340)

\* thousandths of a pixel to length units
ToUnits(milli) == (milli * PosScale) \div 1000

minDim == CanvasSize                         \* Math.min(width, height)
baseUnit == minDim                           \* minDim / 1000, in thousandths
center == (CanvasSize * PosScale) \div 2     \* center.x = width / 2

\* scalingFactor / dynamicScale for n bubbles, in thousandths
ScalingFactor(n) ==
    IF n < 40 THEN 1000 + (3500 * (40 - n)) \div 40
    ELSE Max2(400, 6000000 \div SqrtMilli(n + 6))

\* Math.sqrt(d.count) * 4.5 * baseUnit, in thousandths of a pixel
BubbleBase(count) == (((SqrtMilli(count) * 45) \div 10) * baseUnit) \div 1000

\* totalBubbleDiameter, in thousandths of a pixel
TotalBubbleDiameter(d) ==
    SumSeq(MapSeq(LAMBDA n : 2 * ((BubbleBase(n.count) * ScalingFactor(Len(d))) \div 1000),
                  d))

\* spacingFactor, in thousandths
SpacingFactor ==
    IF minDim >= 1200 THEN 1800
    ELSE IF minDim > 350 THEN 2500 - ((minDim - 350) * 700) \div 850
    ELSE 2500

\* sizeFactor after the safety clamps, in thousandths (pi = 355/113)
SizeFactor(d) ==
    LET idealCircumference == ((TotalBubbleDiameter(d) \div 10) * SpacingFactor) \div 100
        idealRadius == (idealCircumference * 113) \div 710
    IN  Max2(250, Min2(600, idealRadius \div minDim))

\* containerRadius, in length units
ContainerRadius(props) ==
    IF props.mode = "CLUSTER" THEN (minDim * 60 * PosScale) \div 100
    ELSE (minDim * SizeFactor(props.data) * PosScale) \div 1000

AttractionRadius(props) == (ContainerRadius(props) * 95) \div 100

\* the radius given to a node, in length units
NodeRadius(props, count) ==
    LET modeMultiplier == IF props.mode = "CLUSTER" THEN 25 ELSE 10
        raw == ((((BubbleBase(count) + 2 * baseUnit)
                    * ScalingFactor(Len(props.data))) \div 1000) * modeMultiplier) \div 10
        capRatio == IF props.mode = "CLUSTER" THEN 50 ELSE 40
        capped == Min2(ToUnits(raw), (ContainerRadius(props) * capRatio) \div 100)
    IN  Max2(2 * PosScale, capped)

\* newNodes for nodes that come with the positions xs of existing objects
NewNodes(props, xs) ==
    [i \in 1..Len(props.data) |->
        [x |-> xs[i], vx |-> 0,
         radius |-> NodeRadius(props, props.data[i].count),
         currentRadius |-> 0,
         targetX |-> props.data[i].pillar]]

-----------------------------------------------------------------------------
(* One simulation tick: the forces in registration order (collide,         *)
(* pillar_x, charge, enclosure), then the position update x += vx *= 0.4.  *)
(* A velocity list v holds vx of every node; jig is the sign d3 picks for  *)
(* two coincident nodes.                                                   *)

CollidePad == 4 * PosScale          \* .radius(d => d.radius + 4)
CollideIterations == 6              \* .iterations(6)

\* forceCollide: node i, whose anticipated position is xi, meets node j > i
CollideOne(ns, v, i, j, xi, jig) ==
    LET ri == ns[i].radius + CollidePad
        rj == ns[j].radius + CollidePad
        r == ri + rj
        x == xi - ns[j].x - v[j]
        dir == IF x = 0 THEN jig ELSE Sign(x)
        push == dir * (r - Abs(x))                      \* strength 1.0
        ri2 == (ri \div PosScale) * (ri \div PosScale)
        rj2 == (rj \div PosScale) * (rj \div PosScale)
        share == Quot(push * ((1000 * rj2) \div (ri2 + rj2)), 1000)
    IN  IF Abs(x) < r
        THEN [v EXCEPT ![i] = @ + share, ![j] = @ - (push - share)]
        ELSE v

RECURSIVE CollideFrom(_, _, _, _, _, _)
\* one iteration of forceCollide from node i's visit of node j onward
CollideFrom(ns, v, i, j, xi, jig) ==
    IF i > Len(v) THEN v
    ELSE IF j > Len(v)
         THEN IF i + 1 > Len(v) THEN v
              ELSE CollideFrom(ns, v, i + 1, i + 2, ns[i + 1].x + v[i + 1], jig)
         ELSE CollideFrom(ns, CollideOne(ns, v, i, j, xi, jig), i, j + 1, xi, jig)

RECURSIVE Collide(_, _, _, _)
Collide(ns, v, iterations, jig) ==
    IF iterations = 0 \/ v = <<>> THEN v
    ELSE Collide(ns, CollideFrom(ns, v, 1, 2, ns[1].x + v[1], jig), iterations - 1, jig)

\* forceX: vx += (target - x) * strength * alpha
PillarX(props, ns, v, alpha) ==
    [i \in 1..Len(ns) |->
        LET target == IF props.mode = "GLOBAL"
                      THEN center + ns[i].targetX * AttractionRadius(props)
                      ELSE center
            strength == IF props.mode = "GLOBAL" THEN 10 ELSE 15    \* in hundredths
        IN  v[i] + Quot(Quot((target - ns[i].x) * strength, 100) * alpha, AlphaScale)]

\* forceManyBody strength of node j times PosScale: -10, or -radius * 2 in CLUSTER
ChargeStrength(props, n) ==
    IF props.mode = "CLUSTER" THEN 0 - 2 * n.radius ELSE 0 - 10 * PosScale

\* forceManyBody (distanceMin 1): what node j adds to the velocity of node i
ChargeOne(props, ns, i, j, alpha, jig) ==
    LET x == ns[j].x - ns[i].x
        dir == IF x = 0 THEN jig ELSE Sign(x)
        l == Max2(Abs(x), PosScale)
        w == (Abs(ChargeStrength(props, ns[j])) * PosScale) \div l
    IN  IF i = j THEN 0
        ELSE (0 - dir) * ((w * alpha) \div AlphaScale)

Charge(props, ns, v, alpha, jig) ==
    [i \in 1..Len(ns) |->
        v[i] + SumSeq([j \in 1..Len(ns) |-> ChargeOne(props, ns, i, j, alpha, jig)])]

\* the enclosure force on one node whose velocity is vx; center.y is not 0
Enclosure(props, n, vx) ==
    LET limit == ContainerRadius(props)
        dx == n.x - center
        dist == Abs(dx)
        nodeReach == dist + n.currentRadius
        allowedDist == Max2(0, limit - n.currentRadius)
    IN  IF n.x = 0 THEN [n EXCEPT !.vx = vx]                    \* !node.x
        ELSE IF nodeReach > limit
        THEN [n EXCEPT !.x = IF dx < 0 THEN center - allowedDist
                             ELSE center + allowedDist,
                       !.vx = Quot(vx, 10)]
        ELSE [n EXCEPT !.vx = vx]

\* node.x += node.vx *= velocityDecay, with .velocityDecay(0.6)
Integrate(n) ==
    LET vx == Quot(n.vx * 4, 10)
    IN  [n EXCEPT !.vx = vx, !.x = n.x + vx]

\* the nodes after one tick at the decayed alpha
TickNodes(props, ns, alpha, jc, jm) ==
    LET v0 == [i \in 1..Len(ns) |-> ns[i].vx]
        v1 == Collide(ns, v0, CollideIterations, jc)
        v2 == PillarX(props, ns, v1, alpha)
        v3 == Charge(props, ns, v2, alpha, jm)
    IN  [i \in 1..Len(ns) |-> Integrate(Enclosure(props, ns[i], v3[i]))]

AlphaDecay == 4             \* .alphaDecay(0.04), in hundredths
AlphaMin == AlphaScale \div 1000

\* alpha += (alphaTarget - alpha) * alphaDecay, alphaTarget = 0
DecayedAlpha(alpha) == (alpha * (100 - AlphaDecay)) \div 100

\* drawNode: currentRadius eases toward radius
EaseRadius(n) ==
    LET diff == n.radius - n.currentRadius
    IN  IF Abs(diff) * 10 > PosScale
        THEN [n EXCEPT !.currentRadius = @ + Quot(diff, 10)]
        ELSE [n EXCEPT !.currentRadius = n.radius]

-----------------------------------------------------------------------------
(* Layout inputs and actions                                               *)

Item(count, pillar) == [count |-> count, pillar |-> pillar]

\* drilled views (children carry no pillarPos) and top-level views
LayoutInputs ==
    {[mode |-> "CLUSTER", data |-> d] :
        d \in {<<Item(1, 0)>>,
               <<Item(40, 0), Item(1, 0)>>,
               <<Item(40, 0), Item(40, 0)>>,
               <<Item(40, 0), Item(40, 0), Item(40, 0)>>}}
    \cup
    {[mode |-> "GLOBAL", data |-> d] :
        d \in {<<Item(4, 1)>>,
               <<Item(40, -1), Item(40, 1)>>}}

\* where the node objects are when the simulation starts (pixels from the
\* center): the left canvas edge x = 0, two places inside, one far outside
StartOffsets == {0 - 500, 0 - 120, 130, 700}
StartXs == {center + o * PosScale : o \in StartOffsets}

Jiggles == {-1, 1}

InitLayout ==
    /\ AggIdle
    /\ MapIdle
    /\ layoutProps \in LayoutInputs
    /\ \E xs \in [1..Len(layoutProps.data) -> StartXs] :
           nodesRef = NewNodes(layoutProps, xs)
    /\ simulationRef = [alpha |-> AlphaScale, running |-> TRUE]
    /\ frame = "simulation"
    /\ CanvasIdle

\* the d3 timer callback: one tick, then stop once alpha < alphaMin
Tick ==
    /\ frame = "simulation"
    /\ simulationRef.running
    /\ \E jc \in Jiggles, jm \in Jiggles :
           LET alpha == DecayedAlpha(simulationRef.alpha)
           IN  /\ nodesRef' = TickNodes(layoutProps, nodesRef, alpha, jc, jm)
               /\ simulationRef' = [alpha |-> alpha, running |-> ~(alpha < AlphaMin)]
    /\ frame' = "render"
    /\ UNCHANGED <<layoutProps, canvasVars, aggVars, mapVars>>

Eased(ns) == \A i \in 1..Len(ns) : ns[i].currentRadius = ns[i].radius

\* the canvas render loop: drawNode on every node
RenderFrame ==
    /\ frame = "render"
    /\ simulationRef.running \/ ~Eased(nodesRef)
    /\ nodesRef' = [i \in 1..Len(nodesRef) |-> EaseRadius(nodesRef[i])]
    /\ frame' = IF simulationRef.running THEN "simulation" ELSE "render"
    /\ UNCHANGED <<layoutProps, simulationRef, canvasVars, aggVars, mapVars>>

NextLayout == Tick \/ RenderFrame

SpecLayout == InitLayout /\ [][NextLayout]_vars

\* the node lies inside the container circle
Enclosed(props, n) == Abs(n.x - center) + n.radius <= ContainerRadius(props)

\* C10: with constant input and from any starting positions, once the simulation
\* has run its bounded number of ticks and come to rest, every node's distance
\* from the container center plus its radius is at most the container radius.
C10_EnclosedAtRest ==
    (frame # "none" /\ ~simulationRef.running) =>
        \A i \in 1..Len(nodesRef) : Enclosed(layoutProps, nodesRef[i])

-----------------------------------------------------------------------------
(* MusicCanvas around useMusicSimulation: the props and the dimensions     *)
(* change, the hook's effect merges the incoming nodes with the live ones  *)
(* by id, the render effect attaches the render loop and the listeners.    *)
(* A valid canvas is CanvasSize x CanvasSize.                               *)

MaxEffectRuns == 2          \* changes of props or dimensions that are followed
MaxCanvasFrames == 1        \* display frames that are followed after a change

NullSimulation == <<>>      \* simulationRef.current === null
NoHover == ""               \* hoveredNode === null

SimRunning(sim) == sim # NullSimulation /\ sim.running

\* simulation.stop() on whatever simulationRef.current holds
StopSimulation(sim) ==
    IF sim = NullSimulation THEN sim ELSE [sim EXCEPT !.running = FALSE]

\* the validation at the top of the hook's effect
ValidInput(props, dims) ==
    ~(dims.width = 0 \/ dims.height = 0 \/ dims.width <= 0 \/ dims.height <= 0
        \/ Len(props.data) = 0)

\* containerRadius as the component render computes it (minDim may be 0)
CanvasContainerRadius(props, dims) ==
    IF Min2(dims.width, dims.height) = 0 THEN 0 ELSE ContainerRadius(props)

\* variant of the lookup that never finds the live node
FindNothing(prev, id) == 0

\* nodesRef.current.find(n => n.id === d.id): the index of the first match, or 0
FindExisting(prev, id) ==
    LET hits == {j \in 1..Len(prev) : prev[j].id = id}
    IN  IF hits = {} THEN 0 ELSE CHOOSE j \in hits : \A h \in hits : j <= h

\* spawnX = center.x + p.x * attractionRadius
SpawnX(props, d) == center + d.pillar * AttractionRadius(props)

\* step 1 of the effect: data.map(d => ({...existing, ..., currentRadius, x}))
\* with random[i] the value of (Math.random() - 0.5) * 50 for the i-th node;
\* d3 gives a node without velocity vx = 0
PrepareNodes(props, prev, random) ==
    [i \in 1..Len(props.data) |->
        LET d == props.data[i]
            existing == FindExisting(prev, d.id)
        IN  [id |-> d.id,
             count |-> d.count,
             radius |-> NodeRadius(props, d.count),
             targetX |-> d.pillar,
             currentRadius |-> IF existing # 0 THEN prev[existing].currentRadius ELSE 0,
             x |-> IF existing # 0 THEN prev[existing].x ELSE SpawnX(props, d) + random[i],
             vx |-> IF existing # 0 THEN prev[existing].vx ELSE 0]]

\* render(): simNodes.sort((a, b) => b.radius - a.radius), then drawNode on each
DrawNodes(ns) ==
    LET sorted == SortDesc(LAMBDA n : n.radius, ns)
    IN  [i \in 1..Len(sorted) |-> EaseRadius(sorted[i])]

IdentityTransform == [k |-> 1, x |-> 0]     \* d3.zoomIdentity

\* variant in which the way back to GLOBAL leaves the camera where it is
KeepsClusterCamera(mode) ==
    IF mode # prevMode /\ prevMode = "GLOBAL" /\ mode = "CLUSTER"
    THEN [transform |-> IdentityTransform, saved |-> transformRef]
    ELSE [transform |-> transformRef, saved |-> savedGlobalTransform]

\* the zoom state management of the render effect for the mode it sees
ZoomForMode(mode) ==
    IF mode # prevMode /\ prevMode = "GLOBAL" /\ mode = "CLUSTER"
    THEN [transform |-> IdentityTransform, saved |-> transformRef]
    ELSE IF mode # prevMode /\ prevMode = "CLUSTER" /\ mode = "GLOBAL"
    THEN [transform |-> savedGlobalTransform, saved |-> savedGlobalTransform]
    ELSE [transform |-> transformRef, saved |-> savedGlobalTransform]

\* (e.clientX - rect.left - x) / k
ToSimulation(t, p) == Quot(p - t.x, t.k)

\* dx * dx + dy * dy < node.radius * node.radius, the pointer on the diameter
Contains(n, mx) == Abs(mx - n.x) < n.radius

\* variant of the hit-test that takes the pointer for a simulation coordinate
HitIgnoringCamera(ns, t, p) ==
    LET hits == {i \in 1..Len(ns) : Contains(ns[i], p)}
    IN  IF hits = {} THEN 0 ELSE CHOOSE i \in hits : \A h \in hits : i <= h

\* getHoveredNode: the index of the first live node under the pointer, or 0
getHoveredNode(ns, t, p) ==
    LET hits == {i \in 1..Len(ns) : Contains(ns[i], ToSimulation(t, p))}
    IN  IF hits = {} THEN 0 ELSE CHOOSE i \in hits : \A h \in hits : i <= h

NoEvent == [callback |-> "none", node |-> NoHover]

-----------------------------------------------------------------------------
(* Canvas inputs and actions                                               *)

CanvasItem(id, count, pillar) == [id |-> id, count |-> count, pillar |-> pillar]

\* two analyses that share a genre, the children of a genre, and no nodes
CanvasProps ==
    {[mode |-> "GLOBAL", data |-> d] :
        d \in {<<>>,
               <<CanvasItem("rock", 40, -1), CanvasItem("jazz", 4, 1)>>,
               <<CanvasItem("jazz", 9, 1), CanvasItem("pop", 4, 0)>>}}
    \cup
    {[mode |-> "CLUSTER",
      data |-> <<CanvasItem("rock-a", 40, 0), CanvasItem("rock-b", 1, 0)>>]}

\* what the ResizeObserver measures: a collapsed container or a square one
DimensionChoices ==
    {[width |-> CanvasSize, height |-> 0],
     [width |-> CanvasSize, height |-> CanvasSize]}

\* (Math.random() - 0.5) * 50 lies in [-25, 25)
SpawnJitters == {0 - 25 * PosScale, 24 * PosScale}

\* the pointer, in pixels from the left edge of the canvas
PointerPx == {260, 500}
Pointers == {px * PosScale : px \in PointerPx}

\* the camera: untouched, or zoomed in twice about the canvas center
Cameras == {IdentityTransform, [k |-> 2, x |-> 0 - center]}

\* MusicCanvas is mounted: no size measured yet, both effects returned early
InitCanvas ==
    /\ AggIdle
    /\ MapIdle
    /\ layoutProps \in CanvasProps
    /\ dimensions = [width |-> 0, height |-> 0]
    /\ nodesRef = <<>>
    /\ simulationRef = NullSimulation
    /\ frame = "canvas"
    /\ renderLoop = FALSE
    /\ hoveredNode = NoHover
    /\ transformRef = IdentityTransform
    /\ savedGlobalTransform = IdentityTransform
    /\ prevMode = layoutProps.mode
    /\ effectRuns = 0
    /\ canvasFrames = 0
    /\ emitted = NoEvent

\* a commit in which the props or the dimensions differ (the parent's props
\* and the ResizeObserver's setDimensions are separate updates): the hook's effect
\* (cleanup, validation, merge, new simulation), then the render effect when
\* dimensions, mode or containerRadius changed (cleanup, attach, first render)
Commit(np, nd, random) ==
    /\ <<np, nd>> # <<layoutProps, dimensions>>
    /\ np = layoutProps \/ nd = dimensions
    /\ LET valid == ValidInput(np, nd)
           merged == IF valid THEN PrepareNodes(np, nodesRef, random) ELSE nodesRef
           sim == IF valid THEN [alpha |-> AlphaScale, running |-> TRUE]
                  ELSE StopSimulation(simulationRef)
           rebind == \/ nd # dimensions
                     \/ np.mode # layoutProps.mode
                     \/ CanvasContainerRadius(np, nd) #
                            CanvasContainerRadius(layoutProps, dimensions)
           attached == rebind /\ sim # NullSimulation
           zoom == ZoomForMode(np.mode)
       IN  /\ layoutProps' = np
           /\ dimensions' = nd
           /\ simulationRef' = sim
           /\ nodesRef' = IF attached THEN DrawNodes(merged) ELSE merged
           /\ renderLoop' = IF rebind THEN attached ELSE renderLoop
           /\ hoveredNode' = IF rebind THEN NoHover ELSE hoveredNode
           /\ transformRef' = IF attached THEN zoom.transform ELSE transformRef
           /\ savedGlobalTransform' = IF attached THEN zoom.saved
                                      ELSE savedGlobalTransform
           /\ prevMode' = IF attached THEN np.mode ELSE prevMode
    /\ effectRuns' = effectRuns + 1
    /\ canvasFrames' = 0
    /\ emitted' = NoEvent
    /\ UNCHANGED <<frame, aggVars, mapVars>>

\* the commits that are followed
Rerender(np, nd, random) ==
    /\ effectRuns < MaxEffectRuns
    /\ Commit(np, nd, random)

\* one display frame: the d3 timer ticks a running simulation, the render
\* loop draws when it is attached
AnimationFrame ==
    /\ canvasFrames < MaxCanvasFrames
    /\ SimRunning(simulationRef) \/ renderLoop
    /\ \E jc \in Jiggles, jm \in Jiggles :
           LET running == SimRunning(simulationRef)
               alpha == DecayedAlpha(simulationRef.alpha)
               ticked == IF running
                         THEN TickNodes(layoutProps, nodesRef, alpha, jc, jm)
                         ELSE nodesRef
           IN  /\ nodesRef' = IF renderLoop THEN DrawNodes(ticked) ELSE ticked
               /\ simulationRef' =
                      IF running THEN [alpha |-> alpha, running |-> ~(alpha < AlphaMin)]
                      ELSE simulationRef
    /\ canvasFrames' = canvasFrames + 1
    /\ emitted' = NoEvent
    /\ UNCHANGED <<layoutProps, frame, dimensions, renderLoop, hoveredNode,
                   transformRef, savedGlobalTransform, prevMode, effectRuns,
                   aggVars, mapVars>>

\* handleMouseMove with the pointer at p
MouseMove(p) ==
    /\ renderLoop
    /\ LET hovered == getHoveredNode(nodesRef, transformRef, p)
       IN  hoveredNode' = IF hovered # 0 THEN nodesRef[hovered].id ELSE NoHover
    /\ emitted' = NoEvent
    /\ UNCHANGED <<layoutProps, nodesRef, simulationRef, frame, dimensions,
                   renderLoop, transformRef, savedGlobalTransform, prevMode,
                   effectRuns, canvasFrames, aggVars, mapVars>>

\* handleClick with the pointer at p
CanvasClick(p) ==
    /\ renderLoop
    /\ LET clicked == getHoveredNode(nodesRef, transformRef, p)
       IN  emitted' = IF clicked # 0
                      THEN [callback |-> "onNodeClick", node |-> nodesRef[clicked].id]
                      ELSE [callback |-> "onBackgroundClick", node |-> NoHover]
    /\ UNCHANGED <<layoutProps, nodesRef, simulationRef, frame, dimensions,
                   renderLoop, hoveredNode, transformRef, savedGlobalTransform,
                   prevMode, effectRuns, canvasFrames, aggVars, mapVars>>

\* the zoom listener: a pan or zoom gesture sets the camera
Zoom(t) ==
    /\ renderLoop
    /\ t # transformRef
    /\ transformRef' = t
    /\ emitted' = NoEvent
    /\ UNCHANGED <<layoutProps, nodesRef, simulationRef, frame, dimensions,
                   renderLoop, hoveredNode, savedGlobalTransform, prevMode,
                   effectRuns, canvasFrames, aggVars, mapVars>>

NextCanvas ==
    \/ \E np \in CanvasProps, nd \in DimensionChoices :
           \E random \in [1..Len(np.data) -> SpawnJitters] : Rerender(np, nd, random)
    \/ AnimationFrame
    \/ \E p \in Pointers : MouseMove(p)
    \/ \E p \in Pointers : CanvasClick(p)
    \/ \E t \in Cameras : Zoom(t)

SpecCanvas == InitCanvas /\ [][NextCanvas]_vars

-----------------------------------------------------------------------------
(* Properties of the layout hook under changing input                      *)

\* C11: whenever the hook is given a zero width or height or an empty node set,
\* also after it ran with valid input, no simulation is running and the live
\* node list read by the renderer and the hit-test is empty.
C11_NoWorkOnInvalidInput ==
    ~ValidInput(layoutProps, dimensions) =>
        /\ ~SimRunning(simulationRef)
        /\ nodesRef = <<>>

\* a step in which the effects re-ran: only Rerender counts effectRuns
EffectStep == effectRuns' = effectRuns + 1

\* the animated radius r0, as merged or after the first draw of the same commit
AnimatedFrom(r0, n) ==
    \/ n.currentRadius = r0
    \/ n.currentRadius = EaseRadius([n EXCEPT !.currentRadius = r0]).currentRadius

NearSpawn(props, d, n) == Abs(n.x - SpawnX(props, d)) <= 25 * PosScale

\* C12: when the node set, dimensions or mode change and the input is valid, every
\* incoming node whose id is in the previous live list starts with that node's
\* position and animated radius, every other incoming node starts near its spawn
\* point with animated radius 0, and previous nodes without a match are gone.
C12_CarryOverById ==
    [][ (EffectStep /\ ValidInput(layoutProps', dimensions')) =>
            /\ Len(nodesRef') = Len(layoutProps'.data)
            /\ \A n \in Range(nodesRef') : \E d \in Range(layoutProps'.data) : n.id = d.id
            /\ \A d \in Range(layoutProps'.data) :
                   \E n \in Range(nodesRef') :
                       /\ n.id = d.id
                       /\ IF \E o \in Range(nodesRef) : o.id = d.id
                          THEN \E o \in Range(nodesRef) :
                                   /\ o.id = d.id
                                   /\ n.x = o.x
                                   /\ AnimatedFrom(o.currentRadius, n)
                          ELSE /\ NearSpawn(layoutProps', d, n)
                               /\ AnimatedFrom(0, n)
      ]_vars

\* C12 witness: a second analysis arrived while the first was settling; "jazz"
\* is in both and keeps the velocity and radius it had, "pop" is new, "rock" is gone
C12_Witness ==
    /\ effectRuns = 2
    /\ canvasFrames = 0
    /\ ValidInput(layoutProps, dimensions)
    /\ \E n \in Range(nodesRef), m \in Range(nodesRef) :
           /\ n.id = "jazz" /\ n.vx # 0 /\ n.currentRadius > PosScale
           /\ m.id = "pop" /\ m.vx = 0 /\ m.currentRadius < n.currentRadius
    /\ \A n \in Range(nodesRef) : n.id # "rock"

\* C13: while the node set is unchanged the simulation never stops ticking on its
\* own: a running simulation whose input stays the same is still running after
\* every step.
C13_NeverStopsOnItsOwn ==
    [][ (SimRunning(simulationRef) /\ layoutProps' = layoutProps) =>
            SimRunning(simulationRef') ]_vars

-----------------------------------------------------------------------------
(* Properties of the canvas hit-test                                       *)

\* on the screen the camera t shows node n as a circle that contains the pointer p
OnScreen(n, t, p) == Abs(p - (n.x * t.k + t.x)) < n.radius * t.k

LiveIds == {nodesRef[i].id : i \in 1..Len(nodesRef)}

\* C15: a click is resolved against the live node list at click time: onNodeClick
\* is called only with a live node whose circle, under the camera, contains the
\* pointer, otherwise onBackgroundClick is called; a node hovered earlier that
\* left the live list is no hit; exactly one of the two callbacks fires.
C15_ClickHitsLiveNode ==
    [][ \A p \in Pointers :
            CanvasClick(p) =>
                /\ emitted'.callback \in {"onNodeClick", "onBackgroundClick"}
                /\ emitted'.callback = "onNodeClick" =>
                       \E n \in Range(nodesRef) :
                           n.id = emitted'.node /\ OnScreen(n, transformRef, p)
                /\ emitted'.callback = "onBackgroundClick" =>
                       \A n \in Range(nodesRef) : ~OnScreen(n, transformRef, p)
                /\ (hoveredNode # NoHover /\ hoveredNode \notin LiveIds) =>
                       emitted'.node # hoveredNode
      ]_vars

\* C15 witness: the hovered node left the live list while the listeners stayed
\* attached, and a click was resolved to the background
C15_Witness ==
    /\ hoveredNode # NoHover
    /\ hoveredNode \notin LiveIds
    /\ nodesRef # <<>>
    /\ emitted.callback = "onBackgroundClick"

\* the ids render() calls drawNode with: every node of nodesRef.current that is
\* not the hovered one, then the hovered one, wherever it comes from
DrawnIds ==
    {nodesRef[i].id : i \in {j \in 1..Len(nodesRef) : nodesRef[j].id # hoveredNode}}
        \cup (IF hoveredNode # NoHover THEN {hoveredNode} ELSE {})

\* C30: in every frame drawn, every node drawn, the one drawn last as hovered
\* included, is a node of the live node list of that frame; a hovered node of a
\* replaced list is not drawn.
C30_DrawsOnlyLiveNodes ==
    [][ (renderLoop /\ canvasFrames' = canvasFrames + 1) => DrawnIds \subseteq LiveIds ]_vars

-----------------------------------------------------------------------------
(* The camera across drill-down and back                                   *)

MaxCameraRuns == 3          \* commits that are followed: measure, drill, back

\* the genres of an analysis and the children of one of them
CameraProps ==
    {p \in CanvasProps :
        \/ p.mode = "CLUSTER"
        \/ \E i \in 1..Len(p.data) : p.data[i].id = "rock"}

\* a pan in addition to the zoom
Panned == [k |-> 1, x |-> 40 * PosScale]

InitCamera == InitCanvas /\ layoutProps \in CameraProps

\* the parent switches between the two views, or the container is measured
ChangeView(np, nd, random) ==
    /\ effectRuns < MaxCameraRuns
    /\ Commit(np, nd, random)

NextCamera ==
    \/ \E np \in CameraProps, nd \in {dimensions, [width |-> CanvasSize, height |-> CanvasSize]} :
           \E random \in [1..Len(np.data) -> SpawnJitters] : ChangeView(np, nd, random)
    \/ \E t \in Cameras \cup {Panned} : Zoom(t)

SpecCamera == InitCamera /\ [][NextCamera]_vars

\* C29: the switch from GLOBAL to CLUSTER saves the camera transform and resets
\* the camera to identity, pans and zooms in the cluster view leave the saved
\* transform alone, and the switch from CLUSTER back to GLOBAL sets the camera
\* to the saved transform: after drill-down and back the camera is the one in
\* effect at the drill-down.
C29_CameraRestoredOnBack ==
    [][ /\ (layoutProps.mode = "GLOBAL" /\ layoutProps'.mode = "CLUSTER") =>
               /\ savedGlobalTransform' = transformRef
               /\ transformRef' = IdentityTransform
        /\ (layoutProps.mode = "CLUSTER" /\ layoutProps'.mode = "CLUSTER") =>
               savedGlobalTransform' = savedGlobalTransform
        /\ (layoutProps.mode = "CLUSTER" /\ layoutProps'.mode = "GLOBAL") =>
               transformRef' = savedGlobalTransform
      ]_vars

\* C29 witness: measured, zoomed or panned in the global view, drilled down and
\* back: the camera is again the one saved at the drill-down, not the identity
C29_Witness ==
    /\ effectRuns = 3
    /\ layoutProps.mode = "GLOBAL"
    /\ prevMode = "GLOBAL"
    /\ savedGlobalTransform # IdentityTransform
    /\ transformRef = savedGlobalTransform

-----------------------------------------------------------------------------
(* Properties of the GenreMap click handler                                *)

\* the node of simulation.nodes() that the click of this step hit
HitNode == currentSimulationNodes[simNodes[lastClick']]

\* C16: while drilled down, a click that hits no node leaves the view stack and the
\* active node set unchanged, and no click at all empties the view stack.
C16_ClicksNeverGoBack ==
    [][ (lastClick' # NoClick /\ viewStack # <<>>) =>
            /\ viewStack' # <<>>
            /\ lastClick' = 0 =>
                   (viewStack' = viewStack /\ activeData' = activeData) ]_vars

\* C16 witness: the last step was a click on the background of a drilled-down view
C16_Witness ==
    /\ lastClick = 0
    /\ viewStack # <<>>
    /\ activeData # data

\* C17: a click that hits a node without children sets selectedArtistNode to that
\* node's id and leaves the view stack and the active node set unchanged.
C17_LeafClickSelects ==
    [][ (lastClick' >= 1 /\ Len(HitNode.children) = 0) =>
            /\ selectedArtistNode' = HitNode.id
            /\ viewStack' = viewStack
            /\ activeData' = activeData ]_vars

\* C17 witness: the last step was a click on an artist of a drilled-down genre, and
\* that artist is the selected one
C17_Witness ==
    /\ lastClick >= 1
    /\ lastClick <= Len(simNodes)
    /\ viewStack # <<>>
    /\ Len(currentSimulationNodes[simNodes[lastClick]].children) = 0
    /\ selectedArtistNode = currentSimulationNodes[simNodes[lastClick]].id

-----------------------------------------------------------------------------
(* Dashboard: playlist and library analyses, each under its AbortSignal.   *)
(* An async function runs from one await to the next without interruption; *)
(* between two awaits any other handler may run. A task is one async call  *)
(* chain; an awaited processTracks continues the task of its caller.       *)

MaxAnalyses == 2            \* playlist or library clicks that are followed

Unpublished == [by |-> 0, value |-> "initial"]
NoWork == [signal |-> 0, work |-> {}]

\* closure: the loading flag and the emptiness of genreData in the render whose
\* handler was clicked, which is what the handler's catch and finally blocks read
Task(fn, sig, pc, closure) == [fn |-> fn, signal |-> sig, pc |-> pc, closure |-> closure]

NoClosure == [loading |-> FALSE, empty |-> FALSE]

\* signal.aborted
Aborted(sig) == signals[sig]

\* variant without the check before the results are published
NotChecked(sig) == FALSE

\* if (signal.aborted) return, before the results are published
AbortedBeforePublish(sig) == Aborted(sig)

\* cancelOperations: abort the current controller, if there is one
CancelledSignals ==
    IF abortControllerRef # 0 THEN [signals EXCEPT ![abortControllerRef] = TRUE]
    ELSE signals

\* where a task goes next, what it publishes on the way, what it last does to
\* the loading flag ("on", "off", "keep") and to the view ("list", "keep")
Step(pc, work, load, view) == [pc |-> pc, work |-> work, load |-> load, view |-> view]

\* return at an aborted check or on the "Aborted" / AbortError exception: the
\* finally blocks do nothing under an aborted signal
Return(sig) == Step(IF Aborted(sig) THEN "aborted" ELSE "done", {}, "keep", "keep")

\* the awaits that take no signal: their exceptions are never the abort
CacheAwaits == {"getCachedArtists", "saveArtistsToCache", "getCachedTracks",
                "saveTracksToCache"}

\* catch and finally of processTracks on another exception than the abort
Caught(sig) ==
    Step(IF Aborted(sig) THEN "aborted" ELSE "done", {},
         IF Aborted(sig) THEN "keep" ELSE "off", "list")

\* catch of handlePlaylistClick on another exception than the abort
PlaylistCaught(sig) == Step(IF Aborted(sig) THEN "aborted" ELSE "done", {}, "off", "list")

\* finally of handleLibraryClick
LibraryFinally(task) ==
    IF ~Aborted(task.signal) /\ task.closure.empty /\ task.closure.loading
    THEN "off" ELSE "keep"

\* catch and finally of handleLibraryClick on another exception than the abort
LibraryCaught(task) ==
    Step(IF Aborted(task.signal) THEN "aborted" ELSE "done", {}, LibraryFinally(task),
         IF task.closure.empty THEN "list" ELSE "keep")

\* "Library up to date", then the finally of handleLibraryClick
LibraryUpToDate(task) == Step("done", {}, LibraryFinally(task), "keep")

\* processTracks from its entry to its first await
ProcessStart(sig) ==
    IF Aborted(sig) THEN Return(sig)
    ELSE Step("getCachedArtists",
              {"setGenreData([])", "setAllTracks([])", "setArtistDetails(new Map())"},
              "on", "keep")

\* processTracks from the check after the artist lookups to its end
ProcessFinish(sig) ==
    IF AbortedBeforePublish(sig) THEN Return(sig)
    ELSE Step("done",
              {"setAllTracks(tracks)", "setArtistDetails(artistMap)",
               "transformTracksToNodes", "setGenreData(nodes)"},
              "off", "keep")

\* how an awaited call ends: it throws, or it returns a list (missing ids,
\* fetched artists, cached or new tracks) that is empty or not
Outcomes == {"threw", "empty", "some"}

\* the task resumes after its await
Continue(task, outcome) ==
    LET sig == task.signal
        some == outcome = "some"
        threw == outcome = "threw"
        abortError == threw /\ Aborted(sig) /\ task.pc \notin CacheAwaits
    IN  CASE abortError -> Return(sig)
          [] ~abortError /\ task.pc = "fetchPlaylistTracks" ->
                 IF threw THEN PlaylistCaught(sig)
                 ELSE IF Aborted(sig) THEN Return(sig) ELSE ProcessStart(sig)
          [] ~abortError /\ task.pc = "getCachedArtists" ->
                 IF threw THEN Caught(sig)
                 ELSE IF some
                      THEN IF Aborted(sig) THEN Return(sig)
                           ELSE Step("fetchArtists", {}, "keep", "keep")
                      ELSE ProcessFinish(sig)
          [] ~abortError /\ task.pc = "fetchArtists" ->
                 IF threw THEN Caught(sig)
                 ELSE IF some THEN Step("saveArtistsToCache", {}, "keep", "keep")
                 ELSE ProcessFinish(sig)
          [] ~abortError /\ task.pc = "saveArtistsToCache" ->
                 IF threw THEN Caught(sig) ELSE ProcessFinish(sig)
          [] ~abortError /\ task.pc = "getCachedTracks" ->
                 IF threw THEN LibraryCaught(task)
                 ELSE IF Aborted(sig) THEN Return(sig)
                 ELSE Step("fetchLikedSongs", {}, IF some THEN "on" ELSE "keep", "keep")
          [] ~abortError /\ task.pc = "fetchLikedSongs" ->
                 IF threw THEN LibraryCaught(task)
                 ELSE IF Aborted(sig) THEN Return(sig)
                 ELSE IF some THEN Step("saveTracksToCache", {}, "keep", "keep")
                 ELSE LibraryUpToDate(task)
          [] ~abortError /\ task.pc = "saveTracksToCache" ->
                 IF threw THEN LibraryCaught(task) ELSE ProcessStart(sig)

Finished(task) == task.pc \in {"done", "aborted"}

\* the track list a task hands to processTracks
TracksOf(task) ==
    CASE task.fn = "handlePlaylistClick" -> "tracks"
      [] task.fn = "handleLibraryClick" -> "uniqueTracks"
      [] task.fn = "processTracks" -> "cachedTracks"

Publish(current, task, work, full, empty) ==
    IF full \in work THEN [by |-> task.signal, value |-> TracksOf(task)]
    ELSE IF empty \in work THEN [by |-> task.signal, value |-> "empty"]
    ELSE current

-----------------------------------------------------------------------------
(* Dashboard actions                                                       *)

\* the Dashboard is mounted with a session; nothing has been analysed
InitDashboard ==
    /\ tracks = <<>> /\ artistMap = <<>> /\ nodes = <<>> /\ aggPc = "idle"
    /\ ClassIdle
    /\ MapIdle
    /\ LayoutIdle
    /\ signals = <<>>
    /\ abortControllerRef = 0
    /\ tasks = <<>>
    /\ genreData = Unpublished
    /\ allTracks = Unpublished
    /\ artistDetails = Unpublished
    /\ analysisStep = NoWork
    /\ loading = FALSE
    /\ viewTitle = FALSE

\* handlePlaylistClick up to its first await: cancel, new controller, fetch
handlePlaylistClick ==
    /\ Len(signals) < MaxAnalyses
    /\ ~viewTitle
    /\ signals' = Append(CancelledSignals, FALSE)
    /\ abortControllerRef' = Len(signals) + 1
    /\ tasks' = Append(tasks, Task("handlePlaylistClick", Len(signals) + 1,
                                   "fetchPlaylistTracks", NoClosure))
    /\ analysisStep' = NoWork
    /\ loading' = TRUE
    /\ viewTitle' = TRUE
    /\ UNCHANGED <<genreData, allTracks, artistDetails, tracks, artistMap, nodes,
                   aggPc, classVars, mapVars, layoutVars>>

\* handleLibraryClick up to its first await: cancel, new controller, cache read
handleLibraryClick ==
    /\ Len(signals) < MaxAnalyses
    /\ ~viewTitle
    /\ signals' = Append(CancelledSignals, FALSE)
    /\ abortControllerRef' = Len(signals) + 1
    /\ tasks' = Append(tasks, Task("handleLibraryClick", Len(signals) + 1,
                                   "getCachedTracks",
                                   [loading |-> loading,
                                    empty |-> genreData.value \in {"initial", "empty"}]))
    /\ analysisStep' = NoWork
    /\ loading' = TRUE
    /\ viewTitle' = TRUE
    /\ UNCHANGED <<genreData, allTracks, artistDetails, tracks, artistMap, nodes,
                   aggPc, classVars, mapVars, layoutVars>>

\* the back button of the detail view: cancelOperations, setViewTitle(null)
cancelOperations ==
    /\ abortControllerRef # 0
    /\ signals' = CancelledSignals
    /\ abortControllerRef' = 0
    /\ analysisStep' = NoWork
    /\ loading' = FALSE
    /\ viewTitle' = FALSE
    /\ UNCHANGED <<tasks, genreData, allTracks, artistDetails, tracks, artistMap,
                   nodes, aggPc, classVars, mapVars, layoutVars>>

\* task t resumes after its await and runs to its next await or to its end,
\* where it lets go of its closure; handleLibraryClick with cached tracks starts
\* processTracks without awaiting it
Resume(t, outcome) ==
    /\ ~Finished(tasks[t])
    /\ \E step \in {Continue(tasks[t], outcome)} :
         LET task == tasks[t]
             sig == task.signal
             spawn == task.pc = "getCachedTracks" /\ outcome = "some" /\ ~Aborted(sig)
             ended == step.pc \in {"done", "aborted"}
             resumed == [tasks EXCEPT ![t] = Task(task.fn, sig, step.pc,
                                                  IF ended THEN NoClosure
                                                  ELSE task.closure)]
         IN  \E work \in {step.work \cup (IF spawn THEN ProcessStart(sig).work ELSE {})} :
               /\ tasks' = IF spawn
                           THEN Append(resumed, Task("processTracks", sig,
                                                     ProcessStart(sig).pc, NoClosure))
                           ELSE resumed
               /\ genreData' = Publish(genreData, task, work,
                                       "setGenreData(nodes)", "setGenreData([])")
               /\ allTracks' = Publish(allTracks, task, work,
                                       "setAllTracks(tracks)", "setAllTracks([])")
               /\ artistDetails' = Publish(artistDetails, task, work,
                                           "setArtistDetails(artistMap)",
                                           "setArtistDetails(new Map())")
               /\ analysisStep' = IF work = {} THEN NoWork
                                  ELSE [signal |-> sig, work |-> work]
               /\ loading' = IF step.load = "keep" THEN loading ELSE step.load = "on"
               /\ viewTitle' = (viewTitle /\ step.view = "keep")
    /\ UNCHANGED <<signals, abortControllerRef, tracks, artistMap, nodes, aggPc,
                   classVars, mapVars, layoutVars>>

NextDashboard ==
    \/ handlePlaylistClick
    \/ handleLibraryClick
    \/ cancelOperations
    \/ \E t \in 1..Len(tasks), outcome \in Outcomes : Resume(t, outcome)

SpecDashboard == InitDashboard /\ [][NextDashboard]_vars

-----------------------------------------------------------------------------
(* Properties of the cancellable analyses                                  *)

\* C14: once an analysis's abort signal is set, none of its tasks afterwards calls
\* transformTracksToNodes or sets genreData, allTracks or artistDetails, at
\* whichever await the tasks were when the signal was set.
C14_NoWorkAfterAbort ==
    analysisStep.work # {} => ~Aborted(analysisStep.signal)

\* C14 witness: an analysis had reset the published data and waited for the artist
\* lookups when its signal was set; its task has returned since, and what it had
\* published last is still the reset
C14_Witness ==
    \E t \in 1..Len(tasks) :
        /\ tasks[t].pc = "aborted"
        /\ Aborted(tasks[t].signal)
        /\ genreData = [by |-> tasks[t].signal, value |-> "empty"]

\* every task of the analysis under signal sig has run to its end
AllFinished(sig) == \A t \in 1..Len(tasks) : tasks[t].signal = sig => Finished(tasks[t])

\* C26: when a library analysis runs processTracks on the cached tracks and, after
\* the sync found new tracks, on the merged list, no step replaces the genreData
\* computed from the merged list by the one computed from the cached tracks alone,
\* whatever the order of the awaits of the two runs.
C26_MergedResultNotOverwritten ==
    [][~( /\ genreData.value = "uniqueTracks"
          /\ genreData'.by = genreData.by
          /\ genreData'.value = "cachedTracks" )]_vars

\* C27: when every task of an analysis that was not aborted has run to its end,
\* loading is false; nothing but another click changes it afterwards.
C27_LoadingClearedAtEnd ==
    \A sig \in 1..Len(signals) : (~Aborted(sig) /\ AllFinished(sig)) => ~loading

-----------------------------------------------------------------------------
(* The genre classifier: mapGenreToPillar                                  *)
(* A label is a sequence of characters; weights are in tenths, and a       *)
(* pillar the returned object has no entry for has weight 0.               *)

MaxWords == 2               \* words per label

Pillars == {"Pop", "Rock", "R&B/Hip-Hop", "Electronic", "Jazz/Blues", "Folk/Country",
            "Classical"}

One(p) == [q \in Pillars |-> IF q = p THEN 10 ELSE 0]
Two(p1, w1, p2, w2) == [q \in Pillars |-> IF q = p1 THEN w1 ELSE IF q = p2 THEN w2 ELSE 0]
Three(p1, w1, p2, w2, p3, w3) ==
    [q \in Pillars |-> IF q = p1 THEN w1 ELSE IF q = p2 THEN w2
                       ELSE IF q = p3 THEN w3 ELSE 0]

UpperCase == <<"A", "B", "C", "D", "E", "F", "G", "H", "I", "J", "K", "L", "M",
               "N", "O", "P", "Q", "R", "S", "T", "U", "V", "W", "X", "Y", "Z">>
LowerCase == <<"a", "b", "c", "d", "e", "f", "g", "h", "i", "j", "k", "l", "m",
               "n", "o", "p", "q", "r", "s", "t", "u", "v", "w", "x", "y", "z">>

\* String.prototype.toLowerCase on the characters the labels are made of
toLowerCase(str) ==
    [i \in 1..Len(str) |->
        IF \E u \in 1..Len(UpperCase) : UpperCase[u] = str[i]
        THEN LowerCase[CHOOSE u \in 1..Len(UpperCase) : UpperCase[u] = str[i]]
        ELSE str[i]]

\* String.prototype.includes: kw occurs in g as a substring
Includes(g, kw) ==
    \E i \in 1..(Len(g) - Len(kw) + 1) : SubSeq(g, i, i + Len(kw) - 1) = kw

\* the keywords of the rules
kw_hip_hop == <<"h", "i", "p", " ", "h", "o", "p">>
kw_rap == <<"r", "a", "p">>
kw_rnb == <<"r", "&", "b">>
kw_trap == <<"t", "r", "a", "p">>
kw_drill == <<"d", "r", "i", "l", "l">>
kw_grime == <<"g", "r", "i", "m", "e">>
kw_jazz == <<"j", "a", "z", "z">>
kw_neo == <<"n", "e", "o">>
kw_pop == <<"p", "o", "p">>
kw_soul == <<"s", "o", "u", "l">>
kw_funk == <<"f", "u", "n", "k">>
kw_disco == <<"d", "i", "s", "c", "o">>
kw_indie == <<"i", "n", "d", "i", "e">>
kw_synth == <<"s", "y", "n", "t", "h">>
kw_elect == <<"e", "l", "e", "c", "t">>
kw_hop == <<"h", "o", "p">>
kw_punk == <<"p", "u", "n", "k">>
kw_rock == <<"r", "o", "c", "k">>
kw_metal == <<"m", "e", "t", "a", "l">>
kw_grunge == <<"g", "r", "u", "n", "g", "e">>
kw_soft == <<"s", "o", "f", "t">>
kw_folk == <<"f", "o", "l", "k">>
kw_electronic == <<"e", "l", "e", "c", "t", "r", "o", "n", "i", "c">>
kw_industrial == <<"i", "n", "d", "u", "s", "t", "r", "i", "a", "l">>
kw_psychedelic == <<"p", "s", "y", "c", "h", "e", "d", "e", "l", "i", "c">>
kw_edm == <<"e", "d", "m">>
kw_house == <<"h", "o", "u", "s", "e">>
kw_techno == <<"t", "e", "c", "h", "n", "o">>
kw_dance == <<"d", "a", "n", "c", "e">>
kw_trance == <<"t", "r", "a", "n", "c", "e">>
kw_dubstep == <<"d", "u", "b", "s", "t", "e", "p">>
kw_bass == <<"b", "a", "s", "s">>
kw_ambient == <<"a", "m", "b", "i", "e", "n", "t">>
kw_blues == <<"b", "l", "u", "e", "s">>
kw_bossa == <<"b", "o", "s", "s", "a">>
kw_swing == <<"s", "w", "i", "n", "g">>
kw_country == <<"c", "o", "u", "n", "t", "r", "y">>
kw_americana == <<"a", "m", "e", "r", "i", "c", "a", "n", "a">>
kw_bluegrass == <<"b", "l", "u", "e", "g", "r", "a", "s", "s">>
kw_acoustic == <<"a", "c", "o", "u", "s", "t", "i", "c">>
kw_roots == <<"r", "o", "o", "t", "s">>
kw_classical == <<"c", "l", "a", "s", "s", "i", "c", "a", "l">>
kw_orchestra == <<"o", "r", "c", "h", "e", "s", "t", "r", "a">>
kw_piano == <<"p", "i", "a", "n", "o">>
kw_soundtrack == <<"s", "o", "u", "n", "d", "t", "r", "a", "c", "k">>
kw_score == <<"s", "c", "o", "r", "e">>
kw_baroque == <<"b", "a", "r", "o", "q", "u", "e">>
kw_alternative == <<"a", "l", "t", "e", "r", "n", "a", "t", "i", "v", "e">>
kw_chill == <<"c", "h", "i", "l", "l">>
kw_latin == <<"l", "a", "t", "i", "n">>
kw_reggaeton == <<"r", "e", "g", "g", "a", "e", "t", "o", "n">>
kw_reggae == <<"r", "e", "g", "g", "a", "e">>
kw_singer_songwriter == <<"s", "i", "n", "g", "e", "r", "-", "s", "o", "n", "g", "w", "r", "i", "t", "e", "r">>
kw_lo_fi == <<"l", "o", "-", "f", "i">>

\* variant of the first rule family that lets a pop keyword win
PopBeforeHipHop(g) ==
    IF Includes(g, kw_pop) THEN One("Pop") ELSE One("R&B/Hip-Hop")

\* the body of the first rule family, hip-hop / R&B
HipHopRule(g) ==
    IF Includes(g, kw_jazz) \/ Includes(g, kw_neo)
    THEN Two("R&B/Hip-Hop", 6, "Jazz/Blues", 4)
    ELSE IF Includes(g, kw_pop) THEN Two("R&B/Hip-Hop", 5, "Pop", 5)
    ELSE One("R&B/Hip-Hop")

\* variant of the pop rule that leaves electronic pop to the electronic rule
PopRuleFallsThrough(g) ==
    IF Includes(g, kw_indie) THEN Two("Pop", 6, "Rock", 4)
    ELSE IF Includes(g, kw_synth) \/ Includes(g, kw_elect)
         THEN Two("Electronic", 6, "Pop", 4)
    ELSE One("Pop")

\* the body of the pop rule
PopRule(g) ==
    IF Includes(g, kw_indie) THEN Two("Pop", 6, "Rock", 4)
    ELSE IF Includes(g, kw_synth) \/ Includes(g, kw_elect)
         THEN Two("Pop", 5, "Electronic", 5)
    ELSE IF Includes(g, kw_rap) \/ Includes(g, kw_hop)
         THEN Two("Pop", 5, "R&B/Hip-Hop", 5)
    ELSE IF Includes(g, kw_punk) THEN Two("Pop", 4, "Rock", 6)
    ELSE One("Pop")

\* an object without any entry
NoWeights == [q \in Pillars |-> 0]

\* the last return: no rule matched
DefaultWeights == Two("Pop", 5, "Rock", 5)

mapGenreToPillar(genre) ==
    LET g == toLowerCase(genre)
    IN  IF Includes(g, kw_hip_hop) \/ Includes(g, kw_rap)
           \/ Includes(g, kw_rnb) \/ Includes(g, kw_trap)
           \/ Includes(g, kw_drill) \/ Includes(g, kw_grime)
        THEN HipHopRule(g)
        ELSE IF Includes(g, kw_soul) \/ Includes(g, kw_funk)
                \/ Includes(g, kw_disco)
        THEN IF Includes(g, kw_neo) THEN Two("R&B/Hip-Hop", 7, "Jazz/Blues", 3)
             ELSE IF Includes(g, kw_pop) THEN Two("Pop", 6, "R&B/Hip-Hop", 4)
             ELSE IF Includes(g, kw_disco) THEN Two("R&B/Hip-Hop", 4, "Electronic", 6)
             ELSE Two("R&B/Hip-Hop", 8, "Jazz/Blues", 2)
        ELSE IF Includes(g, kw_pop)
        THEN PopRule(g)
        ELSE IF Includes(g, kw_rock) \/ Includes(g, kw_metal)
                \/ Includes(g, kw_punk) \/ Includes(g, kw_grunge)
        THEN IF Includes(g, kw_soft) \/ Includes(g, kw_folk)
             THEN Two("Rock", 5, "Folk/Country", 5)
             ELSE IF Includes(g, kw_electronic) \/ Includes(g, kw_industrial)
                  THEN Two("Rock", 5, "Electronic", 5)
             ELSE IF Includes(g, kw_psychedelic) THEN Two("Rock", 7, "Electronic", 3)
             ELSE One("Rock")
        ELSE IF Includes(g, kw_electronic) \/ Includes(g, kw_edm)
                \/ Includes(g, kw_house) \/ Includes(g, kw_techno)
                \/ Includes(g, kw_dance) \/ Includes(g, kw_trance)
                \/ Includes(g, kw_dubstep) \/ Includes(g, kw_bass)
        THEN IF Includes(g, kw_pop) THEN Two("Electronic", 6, "Pop", 4)
             ELSE IF Includes(g, kw_rock) THEN Two("Electronic", 6, "Rock", 4)
             ELSE IF Includes(g, kw_ambient) THEN Two("Electronic", 8, "Classical", 2)
             ELSE One("Electronic")
        ELSE IF Includes(g, kw_jazz) \/ Includes(g, kw_blues)
                \/ Includes(g, kw_bossa) \/ Includes(g, kw_swing)
        THEN IF Includes(g, kw_rnb) THEN Two("Jazz/Blues", 6, "R&B/Hip-Hop", 4)
             ELSE IF Includes(g, kw_pop) THEN Two("Jazz/Blues", 4, "Pop", 6)
             ELSE One("Jazz/Blues")
        ELSE IF Includes(g, kw_country) \/ Includes(g, kw_folk)
                \/ Includes(g, kw_americana) \/ Includes(g, kw_bluegrass)
                \/ Includes(g, kw_acoustic) \/ Includes(g, kw_roots)
        THEN IF Includes(g, kw_rock) THEN Two("Folk/Country", 6, "Rock", 4)
             ELSE IF Includes(g, kw_indie) THEN Two("Folk/Country", 7, "Pop", 3)
             ELSE One("Folk/Country")
        ELSE IF Includes(g, kw_classical) \/ Includes(g, kw_orchestra)
                \/ Includes(g, kw_piano) \/ Includes(g, kw_soundtrack)
                \/ Includes(g, kw_score) \/ Includes(g, kw_baroque)
        THEN IF Includes(g, kw_ambient) THEN Two("Classical", 5, "Electronic", 5)
             ELSE One("Classical")
        ELSE IF Includes(g, kw_indie) THEN Two("Rock", 6, "Pop", 4)
        ELSE IF Includes(g, kw_alternative) THEN Two("Rock", 7, "Pop", 3)
        ELSE IF Includes(g, kw_ambient) \/ Includes(g, kw_chill)
             THEN Two("Electronic", 8, "Classical", 2)
        ELSE IF Includes(g, kw_latin) \/ Includes(g, kw_reggaeton)
             THEN Two("Pop", 5, "R&B/Hip-Hop", 5)
        ELSE IF Includes(g, kw_reggae) THEN Two("R&B/Hip-Hop", 7, "Pop", 3)
        ELSE IF Includes(g, kw_singer_songwriter) THEN Two("Folk/Country", 7, "Pop", 3)
        ELSE IF Includes(g, kw_lo_fi)
             THEN Three("R&B/Hip-Hop", 4, "Electronic", 4, "Jazz/Blues", 2)
        ELSE DefaultWeights

-----------------------------------------------------------------------------
(* calculateTargetPosition: the weighted centroid of the pillar anchors.   *)
(* Anchor coordinates are in hundredths; a coordinate of the result is the *)
(* exact quotient x / per, in hundredths.                                  *)

PILLAR_COORDINATES ==
    [q \in Pillars |->
        CASE q = "Pop" -> [x |-> 0, y |-> 0 - 100]
          [] q = "Rock" -> [x |-> 78, y |-> 0 - 62]
          [] q = "R&B/Hip-Hop" -> [x |-> 97, y |-> 22]
          [] q = "Electronic" -> [x |-> 43, y |-> 90]
          [] q = "Jazz/Blues" -> [x |-> 0 - 43, y |-> 90]
          [] q = "Folk/Country" -> [x |-> 0 - 97, y |-> 22]
          [] q = "Classical" -> [x |-> 0 - 78, y |-> 0 - 62]]

RECURSIVE SumOver(_, _, _)
SumOver(w, coord, ps) ==
    IF ps = {} THEN 0
    ELSE LET q == CHOOSE r \in ps : TRUE
         IN  coord[q] * w[q] + SumOver(w, coord, ps \ {q})

UnitCoord == [q \in Pillars |-> 1]
XCoord == [q \in Pillars |-> PILLAR_COORDINATES[q].x]
YCoord == [q \in Pillars |-> PILLAR_COORDINATES[q].y]

NoPosition == [x |-> 0, y |-> 0, per |-> 0]

\* variant that returns the weighted sums without dividing by the total
NotNormalized(w) ==
    [x |-> SumOver(w, XCoord, Pillars), y |-> SumOver(w, YCoord, Pillars), per |-> 1]

\* x, y += coords * weight over the entries; divided by totalWeight if positive
calculateTargetPosition(w) ==
    LET totalWeight == SumOver(w, UnitCoord, Pillars)
    IN  [x |-> SumOver(w, XCoord, Pillars),
         y |-> SumOver(w, YCoord, Pillars),
         per |-> IF totalWeight > 0 THEN totalWeight ELSE 1]

-----------------------------------------------------------------------------
(* The labels the classifier is applied to                                 *)

Words == {
    <<"h", "i", "p", " ", "h", "o", "p">>,
    <<"t", "r", "a", "p">>,
    <<"R", "&", "B">>,
    <<"s", "o", "u", "l">>,
    <<"d", "i", "s", "c", "o">>,
    <<"n", "e", "o">>,
    <<"j", "a", "z", "z">>,
    <<"P", "o", "p">>,
    <<"p", "o", "p">>,
    <<"i", "n", "d", "i", "e">>,
    <<"s", "y", "n", "t", "h">>,
    <<"p", "u", "n", "k">>,
    <<"r", "o", "c", "k">>,
    <<"m", "e", "t", "a", "l">>,
    <<"f", "o", "l", "k">>,
    <<"e", "l", "e", "c", "t", "r", "o", "n", "i", "c">>,
    <<"h", "o", "u", "s", "e">>,
    <<"a", "m", "b", "i", "e", "n", "t">>,
    <<"b", "l", "u", "e", "s">>,
    <<"c", "o", "u", "n", "t", "r", "y">>,
    <<"c", "l", "a", "s", "s", "i", "c", "a", "l">>,
    <<"r", "e", "g", "g", "a", "e", "t", "o", "n">>,
    <<"l", "o", "-", "f", "i">>,
    <<"z", "y", "d", "e", "c", "o">>,
    <<"e", "l", "e", "c", "t", "r", "o", "p", "o", "p">>}

RECURSIVE JoinWords(_)
JoinWords(ws) ==
    IF ws = <<>> THEN <<>>
    ELSE IF Len(ws) = 1 THEN ws[1]
    ELSE ws[1] \o <<" ">> \o JoinWords(Tail(ws))

Labels == {JoinWords(ws) : ws \in SeqsUpTo(Words, 0, MaxWords)}

InitClassifier ==
    /\ tracks = <<>> /\ artistMap = <<>> /\ nodes = <<>> /\ aggPc = "idle"
    /\ DashIdle
    /\ MapIdle
    /\ LayoutIdle
    /\ label \in Labels
    /\ weights = NoWeights
    /\ classPc = "input"
    /\ position = NoPosition

\* the call mapGenreToPillar(label)
Classify ==
    /\ classPc = "input"
    /\ weights' = mapGenreToPillar(label)
    /\ classPc' = "done"
    /\ UNCHANGED <<label, position, tracks, artistMap, nodes, aggPc, dashVars, mapVars,
                   layoutVars>>

NextClassifier == Classify

SpecClassifier == InitClassifier /\ [][NextClassifier]_vars

-----------------------------------------------------------------------------
(* Properties of the classifier                                            *)

RuleKeywords ==
    {
     kw_hip_hop, kw_rap, kw_rnb, kw_trap, kw_drill, kw_grime, kw_jazz, kw_neo,
     kw_pop, kw_soul, kw_funk, kw_disco, kw_indie, kw_synth, kw_elect, kw_hop,
     kw_punk, kw_rock, kw_metal, kw_grunge, kw_soft, kw_folk, kw_electronic,
     kw_industrial, kw_psychedelic, kw_edm, kw_house, kw_techno, kw_dance,
     kw_trance, kw_dubstep, kw_bass, kw_ambient, kw_blues, kw_bossa, kw_swing,
     kw_country, kw_americana, kw_bluegrass, kw_acoustic, kw_roots,
     kw_classical, kw_orchestra, kw_piano, kw_soundtrack, kw_score,
     kw_baroque, kw_alternative, kw_chill, kw_latin, kw_reggaeton, kw_reggae,
     kw_singer_songwriter, kw_lo_fi}

ContainsAny(g, kwset) == \E kw \in kwset : Includes(g, kw)

NonZero(w) == {q \in Pillars : w[q] > 0}

HipHopKeywords == {kw_hip_hop, kw_rap, kw_rnb, kw_trap, kw_drill, kw_grime}
SoulKeywords == {kw_soul, kw_funk, kw_disco}
RockKeywords == {kw_rock, kw_metal, kw_punk, kw_grunge}
ElectronicKeywords == {kw_electronic, kw_edm, kw_house, kw_techno, kw_dance, kw_trance,
                       kw_dubstep, kw_bass}

\* C18: for every label, the empty one and those matching no rule included, the
\* result has a weight for each of the seven pillars, at least one of them non-zero;
\* a label matching no rule gets Pop 0.5, Rock 0.5.
C18_Total ==
    classPc = "done" =>
        /\ DOMAIN weights = Pillars
        /\ \A q \in Pillars : weights[q] \in 0..10
        /\ NonZero(weights) # {}
        /\ ~ContainsAny(toLowerCase(label), RuleKeywords) =>
               weights = Two("Pop", 5, "Rock", 5)

\* C18 witness: the empty label and a label of two unknown words have been classified
C18_Witness ==
    /\ classPc = "done"
    /\ label = <<>> \/ (Len(label) > 6 /\ ~ContainsAny(toLowerCase(label), RuleKeywords))
    /\ Cardinality(NonZero(weights)) = 2

\* C19: for every label the result has exactly one or exactly two non-zero weights.
C19_OneOrTwoEntries ==
    classPc = "done" => Cardinality(NonZero(weights)) \in {1, 2}

\* C20: a label with a keyword of the hip-hop / R&B family gets R&B/Hip-Hop weight
\* whatever pop, rock or electronic keywords it also has; when no earlier family
\* matches, a label containing "pop" gets Pop weight whatever rock or electronic
\* keywords it has, and then a label with a rock keyword gets Rock weight
\* whatever electronic keywords it has.
C20_FamilyPrecedence ==
    classPc = "done" =>
        LET g == toLowerCase(label)
            hiphop == ContainsAny(g, HipHopKeywords)
            soul == ContainsAny(g, SoulKeywords)
            pop == Includes(g, kw_pop)
            rock == ContainsAny(g, RockKeywords)
        IN  /\ hiphop => weights["R&B/Hip-Hop"] > 0
            /\ (~hiphop /\ soul) => weights["R&B/Hip-Hop"] > 0
            /\ (~hiphop /\ ~soul /\ pop) => weights["Pop"] > 0
            /\ (~hiphop /\ ~soul /\ ~pop /\ rock) => weights["Rock"] > 0

\* C20 witness: a classified label has a hip-hop keyword and the keyword pop, written
\* in upper case, and has weight for both pillars
C20_Witness ==
    /\ classPc = "done"
    /\ Includes(label, kw_trap)
    /\ ~Includes(label, kw_pop)
    /\ Includes(toLowerCase(label), kw_pop)
    /\ weights = Two("R&B/Hip-Hop", 5, "Pop", 5)

\* C21: a label containing "pop" together with "elect" or "synth", and no hip-hop,
\* soul/funk/disco or indie keyword, gets weight 0.5 on Pop and on Electronic and
\* zero on every other pillar: the pop rule decides it, not the electronic rule.
C21_ElectropopIsPopAndElectronic ==
    classPc = "done" =>
        LET g == toLowerCase(label)
        IN  ( /\ Includes(g, kw_pop)
              /\ Includes(g, kw_elect) \/ Includes(g, kw_synth)
              /\ ~ContainsAny(g, HipHopKeywords \cup SoulKeywords \cup {kw_indie}) )
            => /\ NonZero(weights) = {"Pop", "Electronic"}
               /\ weights["Pop"] = 5
               /\ weights["Electronic"] = 5

\* C21 witness: the label "electropop" has been classified
C21_Witness ==
    /\ classPc = "done"
    /\ label = <<"e", "l", "e", "c", "t", "r", "o", "p", "o", "p">>
    /\ weights["Pop"] > 0
    /\ weights["Classical"] = 0

-----------------------------------------------------------------------------
(* The positions of weight vectors                                         *)

MaxWeight == 2              \* the largest weight of a drawn vector

\* the vectors the classifier returns, and all vectors of small weights
WeightVectors ==
    {mapGenreToPillar(l) : l \in Labels} \cup [Pillars -> 0..MaxWeight]

InitPosition ==
    /\ tracks = <<>> /\ artistMap = <<>> /\ nodes = <<>> /\ aggPc = "idle"
    /\ DashIdle
    /\ MapIdle
    /\ LayoutIdle
    /\ label = <<>>
    /\ weights \in WeightVectors
    /\ classPc = "done"
    /\ position = NoPosition

\* the call calculateTargetPosition(weights)
Locate ==
    /\ classPc = "done"
    /\ position' = calculateTargetPosition(weights)
    /\ classPc' = "located"
    /\ UNCHANGED <<label, weights, tracks, artistMap, nodes, aggPc, dashVars, mapVars,
                   layoutVars>>

NextPosition == Locate

SpecPosition == InitPosition /\ [][NextPosition]_vars

\* C22: for every vector of non-negative weights with positive total, the result
\* is the centroid of the anchors weighted by the vector, and x * x + y * y <= 1.
C22_CentroidInUnitDisk ==
    (classPc = "located" /\ NonZero(weights) # {}) =>
        LET total == SumOver(weights, UnitCoord, Pillars)
        IN  /\ position.per > 0
            /\ position.x * total = position.per * SumOver(weights, XCoord, Pillars)
            /\ position.y * total = position.per * SumOver(weights, YCoord, Pillars)
            /\ position.x * position.x + position.y * position.y
                   <= (100 * position.per) * (100 * position.per)

\* C22 witness: a vector whose total is not 1 has been placed, on the rim of the disk
C22_Witness ==
    /\ classPc = "located"
    /\ weights = [q \in Pillars |-> IF q = "Pop" THEN MaxWeight ELSE 0]
    /\ position = [x |-> 0, y |-> 0 - 100 * MaxWeight, per |-> MaxWeight]

-----------------------------------------------------------------------------
(* The time cursor set to any value: setCurrentDate(T), then the sync       *)
(* effect's updateSimulationForDate(T), in top-level and drilled views      *)

CursorStops == 8            \* the cursor is set to CursorStops + 1 values
CursorValues == {(YearMs \div 4) * k : k \in 0..CursorStops}

SetCurrentDate(T) ==
    /\ T \in CursorValues
    /\ T # currentDate
    /\ currentDate' = T
    /\ SyncCursor(T)
    /\ lastClick' = NoClick
    /\ UNCHANGED <<data, activeData, viewStack, selectedArtistNode, isPlaying,
                   playbackSpeed, timeRange, nodeTrackCache, now, aggVars, layoutVars>>

NextCursor ==
    \/ \E T \in CursorValues : SetCurrentDate(T)
    \/ \E k \in 1..Len(simNodes) : ClickDrill(k)
    \/ handleBack
    \/ Ticked

SpecCursor == InitGenreMap /\ [][NextCursor]_vars

\* the timestamps of the data that Date can parse
DiscoveredDates(d) ==
    {a.ms : a \in {b \in Range(TraverseAdded(d)) : b.kind = "date"}}

\* C25: when the cursor is below the smallest timestamp found in the data, the
\* active node set is empty or holds only nodes with an undated member track.
C25_NothingBeforeFirstDate ==
    (DiscoveredDates(data) # {} /\ \A ms \in DiscoveredDates(data) : currentDate < ms)
        => \A k \in 1..Len(simNodes) : HasUndated(ViewNode(simNodes[k]))

\* C25 witness: a cursor update took the cursor of a library with dated and
\* undated tracks below its first date, and emptied the active set
C25_Witness ==
    /\ ~lastUpdate.rebuilt
    /\ data = LibUndated
    /\ \A ms \in DiscoveredDates(data) : currentDate < ms
    /\ currentDate > 0
    /\ simNodes = <<>>

\* C28: in every reachable state of the genre map the cursor lies in the time
\* range: timeRange.min <= currentDate <= timeRange.max.
C28_CursorWithinRange ==
    timeRange.min <= currentDate /\ currentDate <= timeRange.max

=============================================================================
